---- MODULE Spec2Model ----
(***************************************************************************)
(* State-machine models of the LRU/TTL cache packages of the repository.   *)
(* Every package is an independent realisation of the same component; each *)
(* gets its own cache variable (the package's Cache struct as a record),   *)
(* its own operations and its own specification.  The wall clock `now` and *)
(* the history variables `last` (the call that has just completed, with    *)
(* its arguments and results, until its caller takes them) and `touched`   *)
(* (recency as the callers saw it) are shared.                             *)
(***************************************************************************)
EXTENDS Integers, Sequences, FiniteSets, TLC

\* ---------------------------------------------------------------- bounds
MaxTime == 3
MaxTTL  == 1
MaxCap  == 2
MaxPending == 1
\* Goroutines that call Close, each any number of times.
MaxClosers == 2
\* The largest capacity of the cache whose links are followed.
MaxLinks == 3

Keys  == {"a", "b", "c"}
Vals  == {"x", "y"}
TTLs  == (0 - 1)..MaxTTL
Caps  == 1..MaxCap
Closers == 1..MaxClosers

\* ------------------------------------------------------------- constants
\* time.Time{}: the zero instant, which every package but agent1 reads as
\* "no expiry".  Real clock readings are the instants 1, 2, ...
ZeroTime == 0
NoKey    == "none"

VARIABLES
    impl,      \* the package under verification
    now,       \* the wall clock, read by time.Now()
    last,      \* history: the operation that completed last and its result
    touched,   \* history: resident keys, most recently touched first
    c11,       \* agent11: *Cache (src/agent11/lru/cache.go, lines 1-262)
    cJan,      \* janitor cache: *Cache (src/unnamed/part_006, lines 1-213)
    c12,       \* agent12: *Cache (src/agent12/internal/lru/lru.go)
    cNeg,      \* ErrNegativeTTL cache: *Cache (src/unnamed/part_003, 362-638)
    c10,       \* agent10, the timer cache: *Cache, and its timers' callbacks
    c1,        \* agent1: *LRUCache (src/agent1/lru.go)
    cPut,      \* agent11's second type: *LRU (src/agent11/lru/cache.go, 264-361)
    c13,       \* agent13: *Cache (src/agent13/lru.go)
    c14,       \* agent14: *Cache (src/agent14/lru.go)
    c8,        \* agent8: *LRU (src/unnamed/part_004)
    cHT,       \* head/tail cache: *Cache (src/agent13/README.md, 58-371)
    cLC        \* lrucache: *Cache (src/unnamed/part_006, lines 215-377)

vars == <<impl, now, last, touched, c11, cJan, c12, cNeg, c10, c1,
          cPut, c13, c14, c8, cHT, cLC>>

\* The cache of a package that is not the one under verification.
Absent == "absent"

\* The caches of the packages other than `me` do not exist.
OnlyImpl(me) ==
    /\ impl = me
    /\ me # "agent11" => c11 = Absent
    /\ me # "janitor" => cJan = Absent
    /\ me # "agent12" => c12 = Absent
    /\ me # "neg" => cNeg = Absent
    /\ me # "agent10" => c10 = Absent
    /\ me # "agent1" => c1 = Absent
    /\ me # "put" => cPut = Absent
    /\ me # "agent13" => c13 = Absent
    /\ me # "agent14" => c14 = Absent
    /\ me # "agent8" => c8 = Absent
    /\ me # "headtail" => cHT = Absent
    /\ me # "lrucache" => cLC = Absent

\* ------------------------------------------------- container/list helpers
\* A *list.List of entries is a sequence, Front() first; an element is
\* named by the key of the entry it carries.
KeysOf(l) == {l[i].key : i \in 1..Len(l)}

IndexOf(l, k) == CHOOSE i \in 1..Len(l) : l[i].key = k

ElemOf(l, k) == l[IndexOf(l, k)]

ListRemove(l, k) == SelectSeq(l, LAMBDA e : e.key # k)

MoveToFront(l, k) == <<ElemOf(l, k)>> \o ListRemove(l, k)

PushFront(l, e) == <<e>> \o l

Back(l) == l[Len(l)]

Min(a, b) == IF a <= b THEN a ELSE b

\* The clock readings an operation can take after the one it took at `t`:
\* time passes while the operation runs.
Later(t) == t..Min(t + 1, MaxTime)

\* The clock readings a caller can hold when it gets the lock, having read
\* the clock before it asked for it: the current one or an earlier one.
Earlier(t) == {r \in 1..t : r >= t - 1}

\* ------------------------------------------------------ history variables
\* No call is waiting for its caller to take the result.
Idle == [op |-> "idle", key |-> NoKey, ttl |-> 0, ok |-> FALSE, n |-> 0,
         val |-> "none"]

\* The call op(key, ttl) returned ok (found, removed, no error) and val;
\* n is what Len returned, and for the other calls the number of entries
\* the call removed.
Did(op, key, ttl, ok, n, val) ==
    [op |-> op, key |-> key, ttl |-> ttl, ok |-> ok, n |-> n, val |-> val]

\* `touched` after an operation that touched key k (NoKey: none) and left
\* the keys `resident` in the cache.
Touch(t, k, resident) ==
    LET moved == IF k = NoKey THEN t
                 ELSE <<k>> \o SelectSeq(t, LAMBDA x : x # k)
    IN  SelectSeq(moved, LAMBDA x : x \in resident)

\* ================================================================ agent11
\* src/agent11/lru/cache.go, lines 1-262: type Cache[K, V].

A11_WithTTL(ttl) == IF ttl < 0 THEN 0 ELSE ttl

A11_WithCleanupInterval(interval) == IF interval <= 0 THEN 0 ELSE interval

A11_New(capacity, ttlOpt, intervalOpt) ==
    [capacity        |-> capacity,
     defaultTTL      |-> A11_WithTTL(ttlOpt),
     items           |-> {},
     evictionList    |-> <<>>,
     cleanupInterval |-> A11_WithCleanupInterval(intervalOpt),
     stopCh          |-> IF A11_WithCleanupInterval(intervalOpt) > 0
                         THEN "open" ELSE "nil",
     stopOnce        |-> FALSE,
     runCleanup      |-> IF A11_WithCleanupInterval(intervalOpt) > 0
                         THEN "select" ELSE "none",
     returned        |-> FALSE]

\* A faulty expiryTime, without the ttl <= 0 case.
A11_expiryTime_Always(ttl, t) == t + ttl

A11_expiryTime(ttl, t) == IF ttl <= 0 THEN ZeroTime ELSE t + ttl

A11_isExpired(ent, t) ==
    IF ent.expires = ZeroTime THEN FALSE ELSE t > ent.expires

A11_removeElementLocked(c, k) ==
    [c EXCEPT !.evictionList = ListRemove(@, k),
              !.items = @ \ {k}]

A11_removeOldestLocked(c) ==
    IF c.evictionList = <<>> THEN c
    ELSE A11_removeElementLocked(c, Back(c.evictionList).key)

\* A faulty purge, which stops at the first element from the back that
\* has not expired.
A11_purgeExpiredLocked_StopsEarly(c, t) ==
    LET n == Len(c.evictionList)
        keep == IF \E i \in 1..n : ~A11_isExpired(c.evictionList[i], t)
                THEN CHOOSE i \in 1..n :
                        /\ ~A11_isExpired(c.evictionList[i], t)
                        /\ \A j \in (i + 1)..n :
                              A11_isExpired(c.evictionList[j], t)
                ELSE 0
    IN  [c EXCEPT !.evictionList = SubSeq(@, 1, keep),
                  !.items = {c.evictionList[i].key : i \in 1..keep}]

\* The walk from Back() to Front() removes every expired element from the
\* list and its key from the map.
A11_purgeExpiredLocked(c, t) ==
    LET dead == {c.evictionList[i].key : i \in
                    {j \in 1..Len(c.evictionList) :
                        A11_isExpired(c.evictionList[j], t)}}
    IN  [c EXCEPT !.evictionList = SelectSeq(@, LAMBDA e : ~A11_isExpired(e, t)),
                  !.items = @ \ dead]

\* A faulty eviction loop, which stops one entry too late.
A11_evictWhileFull_OffByOne(c) ==
    IF Len(c.evictionList) > c.capacity
    THEN A11_removeOldestLocked(c)
    ELSE c

RECURSIVE A11_evictWhileFull(_)
A11_evictWhileFull(c) ==
    IF Len(c.evictionList) >= c.capacity /\ c.evictionList # <<>>
    THEN A11_evictWhileFull(A11_removeOldestLocked(c))
    ELSE c

\* A faulty SetWithTTL, which makes room before it looks the key up.
A11_SetWithTTLState_EvictsFirst(c, key, value, ttl, t1, t2) ==
    LET p == A11_evictWhileFull(A11_purgeExpiredLocked(c, t1)) IN
    IF key \in p.items
    THEN [p EXCEPT !.evictionList =
             MoveToFront([i \in 1..Len(@) |->
                            IF @[i].key = key
                            THEN [key |-> key, value |-> value,
                                  expires |-> A11_expiryTime(ttl, t2)]
                            ELSE @[i]], key)]
    ELSE [p EXCEPT !.evictionList =
                      PushFront(@, [key |-> key, value |-> value,
                                    expires |-> A11_expiryTime(ttl, t2)]),
                   !.items = @ \cup {key}]

\* SetWithTTL: t1 is the reading purgeExpiredLocked gets, t2 the one
\* expiryTime takes.
A11_SetWithTTLState(c, key, value, ttl, t1, t2) ==
    LET p == A11_purgeExpiredLocked(c, t1) IN
    IF key \in p.items
    THEN [p EXCEPT !.evictionList =
             MoveToFront([i \in 1..Len(@) |->
                            IF @[i].key = key
                            THEN [key |-> key, value |-> value,
                                  expires |-> A11_expiryTime(ttl, t2)]
                            ELSE @[i]], key)]
    ELSE LET q == A11_evictWhileFull(p) IN
         [q EXCEPT !.evictionList =
                      PushFront(@, [key |-> key, value |-> value,
                                    expires |-> A11_expiryTime(ttl, t2)]),
                   !.items = @ \cup {key}]

A11_GetFound(c, key, t) ==
    /\ key \in c.items
    /\ ~A11_isExpired(ElemOf(c.evictionList, key), t)

A11_GetValue(c, key, t) ==
    IF A11_GetFound(c, key, t) THEN ElemOf(c.evictionList, key).value
    ELSE "none"

\* A faulty Get, which does not move the element to the front.
A11_GetState_NoPromote(c, key, t) ==
    IF key \notin c.items THEN c
    ELSE IF A11_isExpired(ElemOf(c.evictionList, key), t)
         THEN A11_removeElementLocked(c, key)
         ELSE c

A11_GetState(c, key, t) ==
    IF key \notin c.items THEN c
    ELSE IF A11_isExpired(ElemOf(c.evictionList, key), t)
         THEN A11_removeElementLocked(c, key)
         ELSE [c EXCEPT !.evictionList = MoveToFront(@, key)]

\* A faulty Peek, which moves the element to the front as Get does.
A11_PeekState_Promotes(c, key, t) ==
    IF key \notin c.items THEN c
    ELSE IF A11_isExpired(ElemOf(c.evictionList, key), t)
         THEN A11_removeElementLocked(c, key)
         ELSE [c EXCEPT !.evictionList = MoveToFront(@, key)]

A11_PeekState(c, key, t) ==
    IF key \notin c.items THEN c
    ELSE IF A11_isExpired(ElemOf(c.evictionList, key), t)
         THEN A11_removeElementLocked(c, key)
         ELSE c

\* A faulty Delete, which takes the key out of the map only.
A11_DeleteState_MapOnly(c, key) ==
    [c EXCEPT !.items = @ \ {key}]

A11_DeleteState(c, key) ==
    IF key \notin c.items THEN c ELSE A11_removeElementLocked(c, key)


A11_Frame ==
    UNCHANGED <<impl, cJan, c12, cNeg, c10, c1,
                cPut, c13, c14, c8, cHT, cLC>>

A11_Init ==
    /\ OnlyImpl("agent11")
    /\ now = 1
    /\ last = Idle
    /\ touched = <<>>
    /\ \E capacity \in Caps, ttlOpt \in (0 - 1)..1 :
          c11 = A11_New(capacity, ttlOpt, 1)

A11_SetWithTTL ==
    \E key \in Keys, value \in Vals, ttl \in TTLs, t2 \in Later(now) :
        /\ last = Idle
        /\ c11' = A11_SetWithTTLState(c11, key, value, ttl, now, t2)
        /\ now' = t2
        /\ last' = Did("SetWithTTL", key, ttl, A11_GetFound(c11, key, now),
                       Cardinality(c11.items \ c11'.items), value)
        /\ touched' = Touch(touched, key, c11'.items)
        /\ A11_Frame

A11_Set ==
    \E key \in Keys, value \in Vals, t2 \in Later(now) :
        /\ last = Idle
        /\ c11' = A11_SetWithTTLState(c11, key, value, c11.defaultTTL, now, t2)
        /\ now' = t2
        /\ last' = Did("Set", key, 0, A11_GetFound(c11, key, now),
                       Cardinality(c11.items \ c11'.items), value)
        /\ touched' = Touch(touched, key, c11'.items)
        /\ A11_Frame

A11_Get ==
    \E key \in Keys :
        /\ last = Idle
        /\ c11' = A11_GetState(c11, key, now)
        /\ last' = Did("Get", key, 0, A11_GetFound(c11, key, now),
                       Cardinality(c11.items \ c11'.items),
                       A11_GetValue(c11, key, now))
        /\ touched' = Touch(touched,
                            IF A11_GetFound(c11, key, now) THEN key ELSE NoKey,
                            c11'.items)
        /\ UNCHANGED now
        /\ A11_Frame

A11_Peek ==
    \E key \in Keys :
        /\ last = Idle
        /\ c11' = A11_PeekState(c11, key, now)
        /\ last' = Did("Peek", key, 0, A11_GetFound(c11, key, now),
                       Cardinality(c11.items \ c11'.items),
                       A11_GetValue(c11, key, now))
        /\ touched' = Touch(touched, NoKey, c11'.items)
        /\ UNCHANGED now
        /\ A11_Frame

A11_Delete ==
    \E key \in Keys :
        /\ last = Idle
        /\ c11' = A11_DeleteState(c11, key)
        /\ last' = Did("Delete", key, 0, key \in c11.items, 0, "none")
        /\ touched' = Touch(touched, NoKey, c11'.items)
        /\ UNCHANGED now
        /\ A11_Frame

A11_Len ==
    /\ last = Idle
    /\ c11' = A11_purgeExpiredLocked(c11, now)
    /\ last' = Did("Len", NoKey, 0, TRUE, Len(c11'.evictionList), "none")
    /\ touched' = Touch(touched, NoKey, c11'.items)
    /\ UNCHANGED now
    /\ A11_Frame

A11_Cleanup ==
    /\ last = Idle
    /\ c11' = A11_purgeExpiredLocked(c11, now)
    /\ last' = Did("Cleanup", NoKey, 0, TRUE,
                   Len(c11.evictionList) - Len(c11'.evictionList), "none")
    /\ touched' = Touch(touched, NoKey, c11'.items)
    /\ UNCHANGED now
    /\ A11_Frame

\* runCleanup: the select takes the ticker case and calls Cleanup.
A11_runCleanup ==
    /\ last = Idle
    /\ c11.runCleanup = "select"
    /\ c11' = A11_purgeExpiredLocked(c11, now)
    /\ last' = Did("runCleanup", NoKey, 0, TRUE,
                   Len(c11.evictionList) - Len(c11'.evictionList), "none")
    /\ touched' = Touch(touched, NoKey, c11'.items)
    /\ UNCHANGED now
    /\ A11_Frame

\* The caller takes the result of the call that has just returned; a call
\* that panicked does not return.
Return ==
    /\ last # Idle
    /\ last.val # "panic"
    /\ last' = Idle
    /\ UNCHANGED <<impl, now, touched, c11, cJan, c12, cNeg, c10, c1,
                   cPut, c13, c14, c8, cHT, cLC>>

\* Time passes.
Tick ==
    /\ last = Idle
    /\ now < MaxTime
    /\ now' = now + 1
    /\ UNCHANGED <<impl, last, touched, c11, cJan, c12, cNeg, c10, c1,
                   cPut, c13, c14, c8, cHT, cLC>>

A11_Next ==
    \/ A11_SetWithTTL
    \/ A11_Set
    \/ A11_Get
    \/ A11_Peek
    \/ A11_Delete
    \/ A11_Len
    \/ A11_Cleanup
    \/ A11_runCleanup
    \/ Return
    \/ Tick

Spec11 == A11_Init /\ [][A11_Next]_vars

\* ----------------------------------------------- agent11: Close, runCleanup
\* The runCleanup goroutine is at its select ("select"), has taken the
\* ticker case and is calling Cleanup ("tick"), or has returned ("exited").

\* select, case <-ticker.C.  With stopCh closed too, select may still take
\* this case.
A11_runCleanupTick ==
    /\ last = Idle
    /\ c11.runCleanup = "select"
    /\ c11' = [c11 EXCEPT !.runCleanup = "tick"]
    /\ UNCHANGED <<now, last, touched>>
    /\ A11_Frame

\* c.Cleanup(), under the mutex, and back to the select.
A11_runCleanupSweep ==
    /\ last = Idle
    /\ c11.runCleanup = "tick"
    /\ c11' = [A11_purgeExpiredLocked(c11, now) EXCEPT !.runCleanup = "select"]
    /\ touched' = Touch(touched, NoKey, c11'.items)
    /\ UNCHANGED <<now, last>>
    /\ A11_Frame

\* select, case <-c.stopCh: return.
A11_runCleanupStop ==
    /\ last = Idle
    /\ c11.runCleanup = "select"
    /\ c11.stopCh = "closed"
    /\ c11' = [c11 EXCEPT !.runCleanup = "exited"]
    /\ UNCHANGED <<now, last, touched>>
    /\ A11_Frame

\* Close: stopOnce.Do closes stopCh if there is one, the first time only,
\* and Close returns.
A11_Close ==
    /\ last = Idle
    /\ c11' = [c11 EXCEPT !.stopOnce = TRUE,
                          !.stopCh = IF ~c11.stopOnce /\ @ = "open"
                                     THEN "closed" ELSE @,
                          !.returned = TRUE]
    /\ last' = Did("Close", NoKey, 0, TRUE, 0, "none")
    /\ UNCHANGED <<now, touched>>
    /\ A11_Frame

A11_LifeNext ==
    \/ A11_SetWithTTL
    \/ A11_Get
    \/ A11_runCleanupTick
    \/ A11_runCleanupSweep
    \/ A11_runCleanupStop
    \/ A11_Close
    \/ Return
    \/ Tick

Spec11Life == A11_Init /\ [][A11_LifeNext]_vars

\* C20: with a positive cleanup interval, once Close has returned no
\* Cleanup sweep of the background goroutine is in progress and the
\* goroutine starts no further one.
C20_NoSweepAfterClose ==
    /\ [](impl = "agent11" /\ c11.returned => c11.runCleanup # "tick")
    /\ [][(impl = "agent11" /\ c11.returned) =>
             ~(c11.runCleanup = "select" /\ c11'.runCleanup = "tick")]_vars

\* ----------------------------------------------------- claims on agent11

\* C1: when Set/SetWithTTL inserts a new key into a cache that holds
\* `capacity` entries, none of them expired, exactly one entry leaves the
\* cache, and it is the resident key whose latest Set/SetWithTTL/Get is the
\* oldest (the last key of `touched`; Peek does not touch).
C1_EvictsLeastRecentlyTouched ==
    [][(/\ impl = "agent11"
        /\ last = Idle
        /\ last'.op \in {"Set", "SetWithTTL"}
        /\ last'.key \notin c11.items
        /\ Cardinality(c11.items) = c11.capacity
        /\ \A i \in 1..Len(c11.evictionList) :
              \/ c11.evictionList[i].expires = ZeroTime
              \/ ~(now > c11.evictionList[i].expires))
       => (/\ touched # <<>>
           /\ c11.items \ c11'.items = {touched[Len(touched)]}
           /\ c11'.items = (c11.items \ {touched[Len(touched)]})
                               \cup {last'.key})]_vars

\* Capacity 2: Set(a), Set(b), Get(a), Set(c) has just evicted b.
C1_Witness ==
    /\ impl = "agent11"
    /\ c11.capacity = 2
    /\ now = 1
    /\ last.op = "Set" /\ last.key = "c" /\ last.n = 1
    /\ touched = <<"c", "a">>
    /\ c11.items = {"a", "c"}

\* C2: after every completed operation the cache holds at most `capacity`
\* entries, and the map and the eviction list have the same size (and keys).
C2_NeverOverCapacity ==
    impl = "agent11" =>
        /\ Len(c11.evictionList) <= c11.capacity
        /\ Cardinality(c11.items) = Len(c11.evictionList)
        /\ KeysOf(c11.evictionList) = c11.items

\* A Set of a new key into a full cache has evicted an entry.
C2_Witness ==
    /\ impl = "agent11"
    /\ last.op = "SetWithTTL" /\ last.n = 1
    /\ now = 1
    /\ Len(c11.evictionList) = c11.capacity

NoOption == 0 - 99

Jan_DefaultInterval == 30

\* New(capacity, opts...): the options run after the capacity check.
Jan_New(capacity, withCapacity) ==
    [cap     |-> IF withCapacity = NoOption THEN capacity ELSE withCapacity,
     items   |-> {},
     list    |-> <<>>,
     janitor |-> [interval |-> Jan_DefaultInterval, stop |-> "open"],
     loop     |-> "select",
     closers  |-> [i \in Closers |-> "out"],
     returned |-> FALSE,
     panicked |-> FALSE]

Jan_expired(ent, t) == ent.ttl > 0 /\ t > ent.expiresAt

Jan_removeElementLocked(c, k) ==
    [c EXCEPT !.items = @ \ {k},
              !.list = ListRemove(@, k)]

Jan_removeOldestLocked(c) ==
    IF c.list = <<>> THEN c
    ELSE Jan_removeElementLocked(c, Back(c.list).key)

\* Set: t0 is the clock reading taken before the lock.
Jan_SetState(c, key, value, ttl, t0) ==
    LET exp == IF ttl > 0 THEN t0 + ttl ELSE ZeroTime
        ent == [key |-> key, value |-> value, expiresAt |-> exp, ttl |-> ttl]
    IN  IF key \in c.items
        THEN [c EXCEPT !.list =
                 MoveToFront([i \in 1..Len(@) |->
                                IF @[i].key = key THEN ent ELSE @[i]], key)]
        ELSE LET q == IF Len(c.list) >= c.cap
                      THEN Jan_removeOldestLocked(c) ELSE c
             IN  [q EXCEPT !.list = PushFront(@, ent),
                           !.items = @ \cup {key}]

Jan_GetFound(c, key, t) ==
    /\ key \in c.items
    /\ ~Jan_expired(ElemOf(c.list, key), t)

Jan_GetValue(c, key, t) ==
    IF Jan_GetFound(c, key, t) THEN ElemOf(c.list, key).value ELSE "none"

Jan_GetState(c, key, t) ==
    IF key \notin c.items THEN c
    ELSE IF Jan_expired(ElemOf(c.list, key), t)
         THEN Jan_removeElementLocked(c, key)
         ELSE [c EXCEPT !.list = MoveToFront(@, key)]

Jan_PeekState(c, key, t) ==
    IF key \notin c.items THEN c
    ELSE IF Jan_expired(ElemOf(c.list, key), t)
         THEN Jan_removeElementLocked(c, key)
         ELSE c

Jan_DeleteState(c, key) ==
    IF key \notin c.items THEN c ELSE Jan_removeElementLocked(c, key)

\* expireScan: walks the list from Back(), removing what has expired at t.
Jan_expireScanState(c, t) ==
    LET dead == {c.list[i].key : i \in
                    {j \in 1..Len(c.list) : Jan_expired(c.list[j], t)}}
    IN  [c EXCEPT !.list = SelectSeq(@, LAMBDA e : ~Jan_expired(e, t)),
                  !.items = @ \ dead]

Jan_Len(c) == Len(c.list)

Jan_Capacity(c) == c.cap

Jan_Frame ==
    UNCHANGED <<impl, c11, c12, cNeg, c10, c1,
                cPut, c13, c14, c8, cHT, cLC>>

Jan_Init ==
    /\ OnlyImpl("janitor")
    /\ now = 1
    /\ last = Idle
    /\ touched = <<>>
    /\ \E capacity \in Caps, withCapacity \in {NoOption} \cup (0 - 1)..MaxCap :
          cJan = Jan_New(capacity, withCapacity)

Jan_Set ==
    \E key \in Keys, value \in Vals, ttl \in TTLs, t0 \in Earlier(now) :
        /\ last = Idle
        /\ cJan' = Jan_SetState(cJan, key, value, ttl, t0)
        /\ last' = Did("Set", key, ttl, TRUE,
                       Cardinality(cJan.items \ cJan'.items), value)
        /\ touched' = Touch(touched, key, cJan'.items)
        /\ UNCHANGED now
        /\ Jan_Frame

Jan_Get ==
    \E key \in Keys :
        /\ last = Idle
        /\ cJan' = Jan_GetState(cJan, key, now)
        /\ last' = Did("Get", key, 0, Jan_GetFound(cJan, key, now),
                       Cardinality(cJan.items \ cJan'.items),
                       Jan_GetValue(cJan, key, now))
        /\ touched' = Touch(touched,
                            IF Jan_GetFound(cJan, key, now) THEN key ELSE NoKey,
                            cJan'.items)
        /\ UNCHANGED now
        /\ Jan_Frame

Jan_Peek ==
    \E key \in Keys :
        /\ last = Idle
        /\ cJan' = Jan_PeekState(cJan, key, now)
        /\ last' = Did("Peek", key, 0, Jan_GetFound(cJan, key, now),
                       Cardinality(cJan.items \ cJan'.items),
                       Jan_GetValue(cJan, key, now))
        /\ touched' = Touch(touched, NoKey, cJan'.items)
        /\ UNCHANGED now
        /\ Jan_Frame

Jan_Delete ==
    \E key \in Keys :
        /\ last = Idle
        /\ cJan' = Jan_DeleteState(cJan, key)
        /\ last' = Did("Delete", key, 0, key \in cJan.items, 0, "none")
        /\ touched' = Touch(touched, NoKey, cJan'.items)
        /\ UNCHANGED now
        /\ Jan_Frame

Jan_LenCall ==
    /\ last = Idle
    /\ last' = Did("Len", NoKey, 0, TRUE, Jan_Len(cJan), "none")
    /\ UNCHANGED <<now, touched, cJan>>
    /\ Jan_Frame

\* The janitor goroutine: a tick, then expireScan with the reading it took
\* before the lock.
Jan_expireScan ==
    \E t0 \in Earlier(now) :
        /\ last = Idle
        /\ cJan.loop = "select"
        /\ cJan' = Jan_expireScanState(cJan, t0)
        /\ last' = Did("expireScan", NoKey, 0, TRUE,
                       Len(cJan.list) - Len(cJan'.list), "none")
        /\ touched' = Touch(touched, NoKey, cJan'.items)
        /\ UNCHANGED now
        /\ Jan_Frame

Jan_Next ==
    \/ Jan_Set
    \/ Jan_Get
    \/ Jan_Peek
    \/ Jan_Delete
    \/ Jan_LenCall
    \/ Jan_expireScan
    \/ Return
    \/ Tick

SpecJan == Jan_Init /\ [][Jan_Next]_vars

\* ------------------------------------------------ janitor cache: Close
\* The janitor goroutine is in its loop ("select") or has returned
\* ("exited").  A caller of Close is outside ("out"), has read c.janitor
\* under the mutex and is at its select ("select"), or has taken the
\* default case and is about to close the channel ("close").

\* select, case <-j.stop.
Jan_janitorStop ==
    /\ last = Idle
    /\ cJan.loop = "select"
    /\ cJan.janitor.stop = "closed"
    /\ cJan' = [cJan EXCEPT !.loop = "exited"]
    /\ UNCHANGED <<now, last, touched>>
    /\ Jan_Frame

\* Close, lines 147-153: j is read under the mutex; it is never nil.
Jan_CloseCall(i) ==
    /\ last = Idle
    /\ cJan.closers[i] = "out"
    /\ cJan' = [cJan EXCEPT !.closers[i] = "select"]
    /\ UNCHANGED <<now, last, touched>>
    /\ Jan_Frame

\* Close, lines 154-157: return if the channel is closed, else go on to
\* the default case.  No lock is held.
Jan_CloseSelect(i) ==
    /\ last = Idle
    /\ cJan.closers[i] = "select"
    /\ cJan' = IF cJan.janitor.stop = "closed"
               THEN [cJan EXCEPT !.closers[i] = "out", !.returned = TRUE]
               ELSE [cJan EXCEPT !.closers[i] = "close"]
    /\ UNCHANGED <<now, last, touched>>
    /\ Jan_Frame

\* Close, line 158: close(j.stop), which panics on a closed channel.
Jan_CloseClose(i) ==
    /\ last = Idle
    /\ cJan.closers[i] = "close"
    /\ cJan' = IF cJan.janitor.stop = "closed"
               THEN [cJan EXCEPT !.closers[i] = "out", !.panicked = TRUE]
               ELSE [cJan EXCEPT !.closers[i] = "out",
                                 !.janitor.stop = "closed",
                                 !.returned = TRUE]
    /\ UNCHANGED <<now, last, touched>>
    /\ Jan_Frame

Jan_LifeNext ==
    \/ Jan_Set
    \/ Jan_Get
    \/ Jan_expireScan
    \/ Jan_janitorStop
    \/ \E i \in Closers : Jan_CloseCall(i)
    \/ \E i \in Closers : Jan_CloseSelect(i)
    \/ \E i \in Closers : Jan_CloseClose(i)
    \/ Return
    \/ Tick

SpecJanLife == Jan_Init /\ [][Jan_LifeNext]_vars

\* C15: Close is safe to call several times and from several goroutines
\* at once: whatever the calls and their interleaving, no call panics (the
\* stop channel is closed once) and the channel is closed once a call has
\* returned.
C15_CloseOnceNoPanic ==
    impl = "janitor" =>
        /\ ~cJan.panicked
        /\ cJan.returned => cJan.janitor.stop = "closed"

\* ------------------------------------------------ claims on the janitor cache

\* C3: every cache New returns, whatever options are passed, has
\* Capacity() > 0 and never holds more than Capacity() entries.
C3_CapacityPositiveAndRespected ==
    impl = "janitor" =>
        /\ Jan_Capacity(cJan) > 0
        /\ Jan_Len(cJan) <= Jan_Capacity(cJan)

\* ================================================================ agent12
\* src/agent12/internal/lru/lru.go: type Cache.

A12_New(maxSize) ==
    [maxSize |-> maxSize,
     items   |-> {},
     list    |-> <<>>,
     stopCh  |-> "open",
     cleanup |-> "select",
     wg        |-> 1,
     closeOnce |-> "new",
     closers   |-> [i \in Closers |-> "out"],
     returned  |-> FALSE,
     swept     |-> FALSE,
     panicked  |-> FALSE]

\* Get's test (line 67).
A12_GetExpired(ent, t) == ent.expiresAt # ZeroTime /\ t > ent.expiresAt

\* Len's test (line 145): the entries it counts.
A12_LenCounts(ent, t) == ent.expiresAt = ZeroTime \/ t < ent.expiresAt

\* A faulty sweeper test, without the IsZero guard.
A12_sweepExpired_NoZeroCheck(ent, t) == t > ent.expiresAt

\* removeExpired's test (line 208).
A12_sweepExpired(ent, t) == ent.expiresAt # ZeroTime /\ t > ent.expiresAt

\* A faulty removeElement, which unlinks the element and keeps its key in
\* the map.
A12_removeElement_ListOnly(c, k) ==
    [c EXCEPT !.list = ListRemove(@, k)]

A12_removeElement(c, k) ==
    [c EXCEPT !.items = @ \ {k},
              !.list = ListRemove(@, k)]

A12_evict(c) ==
    IF c.list = <<>> THEN c ELSE A12_removeElement(c, Back(c.list).key)

A12_GetFound(c, key, t) ==
    /\ key \in c.items
    /\ ~A12_GetExpired(ElemOf(c.list, key), t)

A12_GetValue(c, key, t) ==
    IF A12_GetFound(c, key, t) THEN ElemOf(c.list, key).value ELSE "none"

A12_GetState(c, key, t) ==
    IF key \notin c.items THEN c
    ELSE IF A12_GetExpired(ElemOf(c.list, key), t)
         THEN A12_removeElement(c, key)
         ELSE [c EXCEPT !.list = MoveToFront(@, key)]

A12_SetState(c, key, value, ttl, t) ==
    LET ent == [key |-> key, value |-> value,
                expiresAt |-> IF ttl > 0 THEN t + ttl ELSE ZeroTime]
    IN  IF key \in c.items
        THEN [c EXCEPT !.list =
                 MoveToFront([i \in 1..Len(@) |->
                                IF @[i].key = key THEN ent ELSE @[i]], key)]
        ELSE LET q == [c EXCEPT !.list = PushFront(@, ent),
                                !.items = @ \cup {key}]
             IN  IF Len(q.list) > q.maxSize THEN A12_evict(q) ELSE q

A12_DeleteState(c, key) ==
    IF key \in c.items THEN A12_removeElement(c, key) ELSE c

A12_ClearState(c) == [c EXCEPT !.list = <<>>, !.items = {}]

A12_Len(c, t) ==
    Cardinality({i \in 1..Len(c.list) : A12_LenCounts(c.list[i], t)})

A12_removeExpired(c, t) ==
    LET toRemove == {c.list[i].key : i \in
                        {j \in 1..Len(c.list) : A12_sweepExpired(c.list[j], t)}}
    IN  [c EXCEPT !.list = SelectSeq(@, LAMBDA e : e.key \notin toRemove),
                  !.items = @ \ toRemove]

A12_Frame ==
    UNCHANGED <<impl, c11, cJan, cNeg, c10, c1,
                cPut, c13, c14, c8, cHT, cLC>>

A12_Init ==
    /\ OnlyImpl("agent12")
    /\ now = 1
    /\ last = Idle
    /\ touched = <<>>
    /\ \E maxSize \in Caps : c12 = A12_New(maxSize)

A12_Get ==
    \E key \in Keys :
        /\ last = Idle
        /\ c12' = A12_GetState(c12, key, now)
        /\ last' = Did("Get", key, 0, A12_GetFound(c12, key, now),
                       Cardinality(c12.items \ c12'.items),
                       A12_GetValue(c12, key, now))
        /\ touched' = Touch(touched,
                            IF A12_GetFound(c12, key, now) THEN key ELSE NoKey,
                            c12'.items)
        /\ UNCHANGED now
        /\ A12_Frame

A12_Set ==
    \E key \in Keys, value \in Vals, ttl \in TTLs :
        /\ last = Idle
        /\ c12' = A12_SetState(c12, key, value, ttl, now)
        /\ last' = Did("Set", key, ttl, TRUE,
                       Cardinality(c12.items \ c12'.items), value)
        /\ touched' = Touch(touched, key, c12'.items)
        /\ UNCHANGED now
        /\ A12_Frame

A12_Delete ==
    \E key \in Keys :
        /\ last = Idle
        /\ c12' = A12_DeleteState(c12, key)
        /\ last' = Did("Delete", key, 0, key \in c12.items, 0, "none")
        /\ touched' = Touch(touched, NoKey, c12'.items)
        /\ UNCHANGED now
        /\ A12_Frame

A12_Clear ==
    /\ last = Idle
    /\ c12' = A12_ClearState(c12)
    /\ last' = Did("Clear", NoKey, 0, TRUE, 0, "none")
    /\ touched' = Touch(touched, NoKey, c12'.items)
    /\ UNCHANGED now
    /\ A12_Frame

A12_LenCall ==
    /\ last = Idle
    /\ last' = Did("Len", NoKey, 0, TRUE, A12_Len(c12, now), "none")
    /\ UNCHANGED <<now, touched, c12>>
    /\ A12_Frame

\* The cleanup goroutine: a tick, then removeExpired.
A12_cleanup ==
    /\ last = Idle
    /\ c12.cleanup = "select"
    /\ c12' = A12_removeExpired(c12, now)
    /\ last' = Did("removeExpired", NoKey, 0, TRUE,
                   Len(c12.list) - Len(c12'.list), "none")
    /\ touched' = Touch(touched, NoKey, c12'.items)
    /\ UNCHANGED now
    /\ A12_Frame

A12_Next ==
    \/ A12_Get
    \/ A12_Set
    \/ A12_Delete
    \/ A12_Clear
    \/ A12_LenCall
    \/ A12_cleanup
    \/ Return
    \/ Tick

Spec12 == A12_Init /\ [][A12_Next]_vars

\* ------------------------------------------------- agent12: Close, cleanup
\* The cleanup goroutine is at its select ("select"), has received a tick
\* and is about to run removeExpired ("tick"), or has returned and run
\* wg.Done ("exited").  A caller of Close is outside ("out"), has entered
\* closeOnce.Do ("once"), or is the one running the function, in wg.Wait
\* ("wait").

\* select, case <-ticker.C.  With stopCh closed too, select may still take
\* this case.
A12_cleanupTick ==
    /\ last = Idle
    /\ c12.cleanup = "select"
    /\ c12' = [c12 EXCEPT !.cleanup = "tick"]
    /\ UNCHANGED <<now, last, touched>>
    /\ A12_Frame

\* removeExpired, under the mutex, between two calls of the callers.
A12_cleanupSweep ==
    /\ c12.cleanup = "tick"
    /\ c12' = [A12_removeExpired(c12, now) EXCEPT
                  !.cleanup = "select",
                  !.swept = @ \/ c12.stopCh = "closed"]
    /\ touched' = Touch(touched, NoKey, c12'.items)
    /\ UNCHANGED <<now, last>>
    /\ A12_Frame

\* select, case <-c.stopCh: return, and the deferred wg.Done.
A12_cleanupStop ==
    /\ c12.cleanup = "select"
    /\ c12.stopCh = "closed"
    /\ c12' = [c12 EXCEPT !.cleanup = "exited", !.wg = @ - 1]
    /\ UNCHANGED <<now, last, touched>>
    /\ A12_Frame

A12_CloseCall(i) ==
    /\ last = Idle
    /\ c12.closers[i] = "out"
    /\ c12' = [c12 EXCEPT !.closers[i] = "once"]
    /\ UNCHANGED <<now, last, touched>>
    /\ A12_Frame

\* A faulty Close that runs its function without closeOnce.
A12_CloseDo_NoOnce(i) ==
    /\ c12.closers[i] = "once"
    /\ c12' = [c12 EXCEPT !.closeOnce = "running",
                          !.closers[i] = "wait",
                          !.stopCh = "closed",
                          !.panicked = @ \/ c12.stopCh = "closed"]
    /\ UNCHANGED <<now, last, touched>>
    /\ A12_Frame

\* A faulty Close that does not wait for the goroutine.
A12_CloseWait_NoWait(i) ==
    /\ c12.closers[i] = "wait"
    /\ c12' = [c12 EXCEPT !.closeOnce = "done", !.closers[i] = "out",
                          !.returned = TRUE]
    /\ UNCHANGED <<now, last, touched>>
    /\ A12_Frame

\* closeOnce.Do: return if the function has been run, run it if no one has
\* started it, wait while another caller is running it.  The function
\* starts with close(c.stopCh), which panics on a closed channel.
A12_CloseDo(i) ==
    /\ c12.closers[i] = "once"
    /\ c12.closeOnce # "running"
    /\ c12' = IF c12.closeOnce = "done"
              THEN [c12 EXCEPT !.closers[i] = "out", !.returned = TRUE]
              ELSE [c12 EXCEPT !.closeOnce = "running",
                               !.closers[i] = "wait",
                               !.stopCh = "closed",
                               !.panicked = @ \/ c12.stopCh = "closed"]
    /\ UNCHANGED <<now, last, touched>>
    /\ A12_Frame

\* c.wg.Wait() returns, the function is done and Close returns.
A12_CloseWait(i) ==
    /\ c12.closers[i] = "wait"
    /\ c12.wg = 0
    /\ c12' = [c12 EXCEPT !.closeOnce = "done", !.closers[i] = "out",
                          !.returned = TRUE]
    /\ UNCHANGED <<now, last, touched>>
    /\ A12_Frame

A12_LifeNext ==
    \/ A12_Get
    \/ A12_Set
    \/ A12_Delete
    \/ A12_LenCall
    \/ A12_cleanupTick
    \/ A12_cleanupSweep
    \/ A12_cleanupStop
    \/ \E i \in Closers : A12_CloseCall(i)
    \/ \E i \in Closers : A12_CloseDo(i)
    \/ \E i \in Closers : A12_CloseWait(i)
    \/ Return
    \/ Tick

\* The goroutines are scheduled and get the mutex they wait for; select
\* takes the stop case when the ticker has nothing to deliver.
Spec12Life ==
    /\ A12_Init
    /\ [][A12_LifeNext]_vars
    /\ WF_vars(A12_cleanupSweep)
    /\ SF_vars(A12_cleanupStop)
    /\ \A i \in Closers : WF_vars(A12_CloseDo(i)) /\ WF_vars(A12_CloseWait(i))

\* C14: Close may be called any number of times, one call after another
\* or at once from several goroutines, while Get, Set, Delete and Len are
\* called and a sweep runs: the stop channel is closed once (no call
\* panics on closing it again, and it is closed when a call has returned)
\* and every call returns.
C14_CloseIdempotentAndReturns ==
    /\ [](impl = "agent12" =>
            /\ ~c12.panicked
            /\ c12.returned => c12.stopCh = "closed")
    /\ \A i \in Closers :
          (impl = "agent12" /\ c12.closers[i] # "out")
              ~> (c12.closers[i] = "out" /\ c12.returned)

\* A second call of Close returns while the first caller is not in Close
\* any more, and a sweep had received its tick when the channel was
\* closed.
C14_Witness ==
    /\ impl = "agent12"
    /\ c12.closeOnce = "done"
    /\ c12.returned
    /\ \E i \in Closers : c12.closers[i] = "once"
    /\ c12.cleanup = "exited"
    /\ c12.list # <<>>

\* C19: Close waits for the cleanup goroutine: when a call of Close has
\* returned the goroutine has exited, and no removeExpired runs from then
\* on.
C19_CloseWaitsForCleanup ==
    /\ [](impl = "agent12" /\ c12.returned => c12.cleanup = "exited")
    /\ [][impl = "agent12" /\ c12.returned =>
            ~(c12.cleanup = "tick" /\ c12'.cleanup = "select")]_vars

\* Close has returned although the goroutine had a tick in hand when the
\* channel was closed: it ran that sweep before it exited.
C19_Witness ==
    /\ impl = "agent12"
    /\ c12.returned
    /\ c12.cleanup = "exited"
    /\ c12.swept

\* ------------------------------- agent12: every operation and the lifecycle
A12_AllNext ==
    \/ A12_Get
    \/ A12_Set
    \/ A12_Delete
    \/ A12_Clear
    \/ A12_LenCall
    \/ A12_cleanupTick
    \/ A12_cleanupSweep
    \/ A12_cleanupStop
    \/ \E i \in Closers : A12_CloseCall(i)
    \/ \E i \in Closers : A12_CloseDo(i)
    \/ \E i \in Closers : A12_CloseWait(i)
    \/ Return
    \/ Tick

Spec12All == A12_Init /\ [][A12_AllNext]_vars

\* C29: whenever no operation holds the mutex, whatever Get, Set, Delete,
\* Clear, Len, Close and the sweeps of removeExpired have done and in
\* whatever order, the map `items` and the list hold the same keys, each
\* of them once: len(items) = list.Len().
C29_MapAndListAgree ==
    impl = "agent12" =>
        /\ KeysOf(c12.list) = c12.items
        /\ Len(c12.list) = Cardinality(c12.items)
        /\ \A i, j \in 1..Len(c12.list) :
              c12.list[i].key = c12.list[j].key => i = j

\* A Set evicted an entry from a full cache after a sweep that ran with
\* the stop channel closed, while a caller of Close is still waiting.
C29_Witness ==
    /\ impl = "agent12"
    /\ c12.swept
    /\ \E i \in Closers : c12.closers[i] = "wait"
    /\ last.op = "Set"
    /\ last.n = 1
    /\ Len(c12.list) = MaxCap

\* ------------------------------------------------------ claims on agent12

\* C4: at every clock reading Len() equals the number of keys for which
\* Get at that same reading would report found, the reading that equals an
\* entry's expiry instant included.
C4_LenCountsWhatGetFinds ==
    (impl = "agent12" /\ last.op = "Len") =>
        last.n = Cardinality({k \in Keys : A12_GetFound(c12, k, now)})

\* C7: Set with ttl <= 0 stores an entry with no expiry, and such an entry
\* never expires: it leaves the cache only by
\* Delete of its key, Clear or capacity eviction, and loses its "no expiry"
\* only by a Set of its key with a positive ttl; Get finds it and Len counts
\* it at every clock reading.
C7_NoTTLNeverExpires ==
    [][impl = "agent12" =>
        /\ (last = Idle /\ last'.op = "Set" /\ last'.ttl <= 0) =>
              /\ last'.key \in c12'.items
              /\ ElemOf(c12'.list, last'.key).expiresAt = ZeroTime
        /\ \A k \in Keys :
            (k \in c12.items /\ ElemOf(c12.list, k).expiresAt = ZeroTime) =>
                /\ A12_GetFound(c12, k, now)
                /\ last'.op = "Len" =>
                       last'.n >= Cardinality({j \in c12.items :
                                     ElemOf(c12.list, j).expiresAt = ZeroTime})
                /\ \/ /\ k \in c12'.items
                      /\ ElemOf(c12'.list, k).expiresAt = ZeroTime
                   \/ last'.op = "Delete" /\ last'.key = k
                   \/ last'.op = "Clear"
                   \/ /\ last'.op = "Set" /\ last'.key # k
                      /\ last'.key \notin c12.items
                      /\ Len(c12.list) = c12.maxSize
                      /\ Back(c12.list).key = k
                   \/ last'.op = "Set" /\ last'.key = k /\ last'.ttl > 0]_vars

\* A sweep at the last clock reading has removed an expired entry and left
\* one stored with no expiry; Get finds that one.
C7_Witness ==
    /\ impl = "agent12"
    /\ now = MaxTime
    /\ last.op = "removeExpired" /\ last.n >= 1
    /\ \E k \in c12.items :
          /\ ElemOf(c12.list, k).expiresAt = ZeroTime
          /\ A12_GetFound(c12, k, now)

\* ================================================= ErrNegativeTTL cache
\* src/unnamed/part_003, lines 362-638: type Cache[K, V], New returns an error.

Neg_defaultCleanupInterval == 1

\* ------------------------------------------- ErrNegativeTTL cache: New
\* Before New is called there is no cache; a New that fails returns the
\* nil cache.

\* A faulty New, without the test of the default TTL.
Neg_New_NoTTLCheck(capacity, ttl, interval) ==
    IF capacity <= 0 THEN [err |-> "ErrInvalidCapacity", cache |-> "nil"]
    ELSE [err   |-> "nil",
          cache |-> [capacity        |-> capacity,
                     entries         |-> {},
                     order           |-> <<>>,
                     defaultTTL      |-> ttl,
                     cleanupInterval |-> IF interval <= 0
                                         THEN Neg_defaultCleanupInterval
                                         ELSE interval,
                     stopCh          |-> "open",
                     runCleanup      |-> "select"]]

\* A faulty SetWithTTL, without the test of ttl.
Neg_SetWithTTLState_NoCheck(c, key, value, ttl, t) ==
    LET ttlToUse  == IF ttl = 0 THEN c.defaultTTL ELSE ttl
        expiresAt == IF ttlToUse > 0 THEN t + ttlToUse ELSE ZeroTime
        ent == [key |-> key, value |-> value, expiresAt |-> expiresAt]
    IN  IF key \in c.entries
        THEN [c EXCEPT !.order =
                 MoveToFront([i \in 1..Len(@) |->
                                IF @[i].key = key THEN ent ELSE @[i]], key)]
        ELSE [c EXCEPT !.order = PushFront(@, ent),
                       !.entries = @ \cup {key}]

\* New(capacity, WithDefaultTTL(ttl), WithCleanupInterval(interval)):
\* the error it returns and the cache (none with an error).
Neg_New(capacity, ttl, interval) ==
    IF capacity <= 0 THEN [err |-> "ErrInvalidCapacity", cache |-> "nil"]
    ELSE IF ttl < 0 THEN [err |-> "ErrNegativeTTL", cache |-> "nil"]
    ELSE [err   |-> "nil",
          cache |-> [capacity        |-> capacity,
                     entries         |-> {},
                     order           |-> <<>>,
                     defaultTTL      |-> ttl,
                     cleanupInterval |-> IF interval <= 0
                                         THEN Neg_defaultCleanupInterval
                                         ELSE interval,
                     stopCh          |-> "open",
                     runCleanup      |-> "select"]]

\* A faulty isExpired, strictly-after instead of not-before.
Neg_isExpired_After(ent, t) ==
    IF ent.expiresAt = ZeroTime THEN FALSE ELSE t > ent.expiresAt

\* !ent.expiresAt.After(now)
Neg_isExpired(ent, t) ==
    IF ent.expiresAt = ZeroTime THEN FALSE ELSE ~(ent.expiresAt > t)

Neg_removeElementLocked(c, k) ==
    [c EXCEPT !.entries = @ \ {k},
              !.order = ListRemove(@, k)]

RECURSIVE Neg_enforceCapacityLocked(_)
Neg_enforceCapacityLocked(c) ==
    IF Len(c.order) > c.capacity /\ c.order # <<>>
    THEN Neg_enforceCapacityLocked(Neg_removeElementLocked(c, Back(c.order).key))
    ELSE c

Neg_removeExpiredLocked(c, t) ==
    LET dead == {c.order[i].key : i \in
                    {j \in 1..Len(c.order) : Neg_isExpired(c.order[j], t)}}
    IN  [c EXCEPT !.order = SelectSeq(@, LAMBDA e : ~Neg_isExpired(e, t)),
                  !.entries = @ \ dead]

Neg_SetWithTTLErr(ttl) == IF ttl < 0 THEN "ErrNegativeTTL" ELSE "nil"

Neg_SetWithTTLState(c, key, value, ttl, t) ==
    IF ttl < 0 THEN c
    ELSE
      LET ttlToUse  == IF ttl = 0 THEN c.defaultTTL ELSE ttl
          expiresAt == IF ttlToUse > 0 THEN t + ttlToUse ELSE ZeroTime
          ent == [key |-> key, value |-> value, expiresAt |-> expiresAt]
      IN  IF key \in c.entries
          THEN [c EXCEPT !.order =
                   MoveToFront([i \in 1..Len(@) |->
                                  IF @[i].key = key THEN ent ELSE @[i]], key)]
          ELSE Neg_enforceCapacityLocked(
                   [c EXCEPT !.order = PushFront(@, ent),
                             !.entries = @ \cup {key}])

Neg_GetFound(c, key, t) ==
    /\ key \in c.entries
    /\ ~Neg_isExpired(ElemOf(c.order, key), t)

Neg_GetValue(c, key, t) ==
    IF Neg_GetFound(c, key, t) THEN ElemOf(c.order, key).value ELSE "none"

\* A faulty Get, which reports an expired entry absent and leaves it.
Neg_GetState_LeavesExpired(c, key, t) ==
    IF key \notin c.entries THEN c
    ELSE IF Neg_isExpired(ElemOf(c.order, key), t)
         THEN c
         ELSE [c EXCEPT !.order = MoveToFront(@, key)]

Neg_GetState(c, key, t) ==
    IF key \notin c.entries THEN c
    ELSE IF Neg_isExpired(ElemOf(c.order, key), t)
         THEN Neg_removeElementLocked(c, key)
         ELSE [c EXCEPT !.order = MoveToFront(@, key)]

Neg_DeleteState(c, key) ==
    IF key \notin c.entries THEN c ELSE Neg_removeElementLocked(c, key)

Neg_Frame ==
    UNCHANGED <<impl, c11, cJan, c12, c10, c1,
                cPut, c13, c14, c8, cHT, cLC>>

Neg_Init ==
    /\ OnlyImpl("neg")
    /\ now = 1
    /\ last = Idle
    /\ touched = <<>>
    /\ \E capacity \in 0..MaxCap, ttl \in (0 - 1)..MaxTTL :
          /\ Neg_New(capacity, ttl, 0).err = "nil"
          /\ cNeg = Neg_New(capacity, ttl, 0).cache

Neg_SetWithTTL ==
    \E key \in Keys, value \in Vals, ttl \in TTLs :
        /\ last = Idle
        /\ cNeg' = Neg_SetWithTTLState(cNeg, key, value, ttl, now)
        /\ last' = Did("SetWithTTL", key, ttl, Neg_SetWithTTLErr(ttl) = "nil",
                       Cardinality(cNeg.entries \ cNeg'.entries), value)
        /\ touched' = Touch(touched,
                            IF Neg_SetWithTTLErr(ttl) = "nil" THEN key ELSE NoKey,
                            cNeg'.entries)
        /\ UNCHANGED now
        /\ Neg_Frame

\* Set(key, value) is SetWithTTL(key, value, 0).
Neg_Set ==
    \E key \in Keys, value \in Vals :
        /\ last = Idle
        /\ cNeg' = Neg_SetWithTTLState(cNeg, key, value, 0, now)
        /\ last' = Did("Set", key, 0, Neg_SetWithTTLErr(0) = "nil",
                       Cardinality(cNeg.entries \ cNeg'.entries), value)
        /\ touched' = Touch(touched, key, cNeg'.entries)
        /\ UNCHANGED now
        /\ Neg_Frame

Neg_Get ==
    \E key \in Keys :
        /\ last = Idle
        /\ cNeg' = Neg_GetState(cNeg, key, now)
        /\ last' = Did("Get", key, 0, Neg_GetFound(cNeg, key, now),
                       Cardinality(cNeg.entries \ cNeg'.entries),
                       Neg_GetValue(cNeg, key, now))
        /\ touched' = Touch(touched,
                            IF Neg_GetFound(cNeg, key, now) THEN key ELSE NoKey,
                            cNeg'.entries)
        /\ UNCHANGED now
        /\ Neg_Frame

Neg_Delete ==
    \E key \in Keys :
        /\ last = Idle
        /\ cNeg' = Neg_DeleteState(cNeg, key)
        /\ last' = Did("Delete", key, 0, key \in cNeg.entries, 0, "none")
        /\ touched' = Touch(touched, NoKey, cNeg'.entries)
        /\ UNCHANGED now
        /\ Neg_Frame

Neg_Len ==
    /\ last = Idle
    /\ cNeg' = Neg_removeExpiredLocked(cNeg, now)
    /\ last' = Did("Len", NoKey, 0, TRUE, Len(cNeg'.order), "none")
    /\ touched' = Touch(touched, NoKey, cNeg'.entries)
    /\ UNCHANGED now
    /\ Neg_Frame

\* runCleanup: the select takes the ticker case and calls
\* removeExpiredEntries.
Neg_runCleanup ==
    /\ last = Idle
    /\ cNeg.runCleanup = "select"
    /\ cNeg' = Neg_removeExpiredLocked(cNeg, now)
    /\ last' = Did("removeExpiredEntries", NoKey, 0, TRUE,
                   Len(cNeg.order) - Len(cNeg'.order), "none")
    /\ touched' = Touch(touched, NoKey, cNeg'.entries)
    /\ UNCHANGED now
    /\ Neg_Frame

Neg_Next ==
    \/ Neg_SetWithTTL
    \/ Neg_Set
    \/ Neg_Get
    \/ Neg_Delete
    \/ Neg_Len
    \/ Neg_runCleanup
    \/ Return
    \/ Tick

SpecNeg == Neg_Init /\ [][Neg_Next]_vars

\* C6: an entry is expired exactly when its expiresAt is set and the clock
\* reading is at or after it (not-before), and Get, Len and the sweeper
\* (removeExpiredEntries) all apply that one test: Get finds a resident key
\* iff it is not expired at the reading, Len removes and does not count
\* exactly the expired entries, the sweeper removes exactly the expired
\* entries, also at a reading equal to expiresAt.
C6_ExpiredExactlyNotBefore ==
    [][LET due(e) == e.expiresAt # ZeroTime /\ now >= e.expiresAt
           live   == SelectSeq(cNeg.order, LAMBDA e : ~due(e))
       IN  (impl = "neg" /\ last = Idle) =>
             /\ (last'.op = "Get" /\ last'.key \in cNeg.entries) =>
                   (last'.ok <=> ~due(ElemOf(cNeg.order, last'.key)))
             /\ last'.op = "Len" =>
                   (cNeg'.order = live /\ last'.n = Len(live))
             /\ last'.op = "removeExpiredEntries" =>
                   (cNeg'.order = live /\ KeysOf(live) = cNeg'.entries)
      ]_vars

\* A Get that took the clock reading 2 found its key resident and expired:
\* the entry was stored at reading 1, so its expiresAt is the reading itself.
C6_Witness ==
    /\ impl = "neg"
    /\ last.op = "Get"
    /\ ~last.ok
    /\ last.n = 1
    /\ now = 2

\* C10: an explicit ttl >= 0 given to SetWithTTL alone decides the stored
\* entry's expiry, whatever defaultTTL is: ttl > 0 gives the reading plus
\* ttl, ttl = 0 gives an entry that never expires.
C10_ExplicitTTLAlone ==
    (impl = "neg" /\ last.op = "SetWithTTL" /\ last.ok) =>
        /\ last.key \in cNeg.entries
        /\ ElemOf(cNeg.order, last.key).expiresAt =
               IF last.ttl > 0 THEN now + last.ttl ELSE ZeroTime

\* No cache yet, and the nil *Cache a failed New returns.
Neg_NoCache == [cache |-> "none"]

Neg_NilCache == [cache |-> "nil"]

\* New(capacity, WithDefaultTTL(ttl), WithCleanupInterval(interval)): the
\* result is in `last`, with the capacity asked for in n and the default
\* TTL in ttl.
Neg_NewCall ==
    \E capacity \in (0 - 1)..MaxCap, ttl \in (0 - 1)..MaxTTL,
       interval \in (0 - 1)..1 :
        /\ cNeg = Neg_NoCache
        /\ last = Idle
        /\ cNeg' = IF Neg_New(capacity, ttl, interval).err = "nil"
                   THEN Neg_New(capacity, ttl, interval).cache
                   ELSE Neg_NilCache
        /\ last' = Did("New", NoKey, ttl,
                       Neg_New(capacity, ttl, interval).err = "nil",
                       capacity, Neg_New(capacity, ttl, interval).err)
        /\ UNCHANGED <<now, touched>>
        /\ Neg_Frame

Neg_NewInit ==
    /\ OnlyImpl("neg")
    /\ now = 1
    /\ last = Idle
    /\ touched = <<>>
    /\ cNeg = Neg_NoCache

Neg_NewNext ==
    \/ Neg_NewCall
    \/ (cNeg \notin {Neg_NoCache, Neg_NilCache} /\ Neg_Next)
    \/ (cNeg = Neg_NilCache /\ Return)

SpecNegNew == Neg_NewInit /\ [][Neg_NewNext]_vars

\* C21: New returns the nil cache and an error, and starts no sweeper,
\* when capacity <= 0 (ErrInvalidCapacity) or the default TTL is negative
\* (ErrNegativeTTL); with capacity >= 1 and a default TTL >= 0 it returns
\* a cache of that capacity, empty, with its sweeper started, and no
\* error.  A nil cache stays nil.
C21_NewValidates ==
    /\ [][last'.op = "New" =>
            /\ last'.ok <=> (last'.n >= 1 /\ last'.ttl >= 0)
            /\ last'.n <= 0 => last'.val = "ErrInvalidCapacity"
            /\ (last'.n >= 1 /\ last'.ttl < 0) => last'.val = "ErrNegativeTTL"
            /\ ~last'.ok => cNeg' = Neg_NilCache
            /\ last'.ok =>
                 /\ last'.val = "nil"
                 /\ cNeg'.capacity = last'.n
                 /\ cNeg'.defaultTTL = last'.ttl
                 /\ cNeg'.entries = {} /\ cNeg'.order = <<>>
                 /\ cNeg'.runCleanup = "select"
          ]_vars
    /\ [][cNeg = Neg_NilCache => cNeg' = Neg_NilCache]_vars

\* New was given a good capacity and a negative default TTL.
C21_Witness ==
    /\ impl = "neg"
    /\ last.op = "New"
    /\ last.n >= 1
    /\ last.val = "ErrNegativeTTL"
    /\ cNeg = Neg_NilCache

\* C22: SetWithTTL with ttl < 0 returns ErrNegativeTTL and changes nothing:
\* the keys, the values, the expiries and the recency order are those of
\* before, also when the key is resident, and the calls that follow work
\* on that state.
C22_NegativeTTLRejected ==
    [][(impl = "neg" /\ last = Idle /\ last'.op = "SetWithTTL"
        /\ last'.ttl < 0) =>
          /\ ~last'.ok
          /\ cNeg' = cNeg
          /\ touched' = touched
      ]_vars

\* SetWithTTL with a negative ttl was refused for a resident key while
\* another key is resident too.
C22_Witness ==
    /\ impl = "neg"
    /\ last.op = "SetWithTTL"
    /\ last.ttl < 0
    /\ ~last.ok
    /\ last.key \in cNeg.entries
    /\ Len(cNeg.order) = 2

\* --------------------- ErrNegativeTTL cache: two runs of the same calls
\* Two executions of the program side by side, with an injected clock:
\* the callers make the same calls at the same clock readings in both,
\* and the sweeper of each run is scheduled on its own.  Here cNeg.run[i]
\* is the cache of run i and cNeg.res[i] what its last call returned.
Twin_Runs == 1..2

Twin_NoResult == [ok |-> FALSE, n |-> 0, val |-> "none"]

Twin_Init ==
    /\ impl = "negTwin"
    /\ c11 = Absent /\ cJan = Absent /\ c12 = Absent /\ c10 = Absent
    /\ c1 = Absent /\ cPut = Absent /\ c13 = Absent /\ c14 = Absent
    /\ c8 = Absent /\ cHT = Absent /\ cLC = Absent
    /\ now = 1
    /\ last = Idle
    /\ touched = <<>>
    /\ \E capacity \in Caps, ttl \in 0..MaxTTL :
          cNeg = [run |-> [i \in Twin_Runs |-> Neg_New(capacity, ttl, 0).cache],
                  res |-> [i \in Twin_Runs |-> Twin_NoResult]]

Twin_SetWithTTL ==
    \E key \in Keys, value \in Vals, ttl \in TTLs :
        /\ last = Idle
        /\ cNeg' = [run |-> [i \in Twin_Runs |->
                        Neg_SetWithTTLState(cNeg.run[i], key, value, ttl, now)],
                    res |-> [i \in Twin_Runs |->
                        [ok |-> Neg_SetWithTTLErr(ttl) = "nil", n |-> 0,
                         val |-> "none"]]]
        /\ last' = Did("SetWithTTL", key, ttl, Neg_SetWithTTLErr(ttl) = "nil",
                       0, value)
        /\ UNCHANGED <<now, touched>>
        /\ Neg_Frame

Twin_Get ==
    \E key \in Keys :
        /\ last = Idle
        /\ cNeg' = [run |-> [i \in Twin_Runs |->
                        Neg_GetState(cNeg.run[i], key, now)],
                    res |-> [i \in Twin_Runs |->
                        [ok  |-> Neg_GetFound(cNeg.run[i], key, now),
                         n   |-> 0,
                         val |-> Neg_GetValue(cNeg.run[i], key, now)]]]
        /\ last' = Did("Get", key, 0, Neg_GetFound(cNeg.run[1], key, now), 0,
                       Neg_GetValue(cNeg.run[1], key, now))
        /\ UNCHANGED <<now, touched>>
        /\ Neg_Frame

Twin_Len ==
    /\ last = Idle
    /\ cNeg' = [run |-> [i \in Twin_Runs |->
                    Neg_removeExpiredLocked(cNeg.run[i], now)],
                res |-> [i \in Twin_Runs |->
                    [ok |-> TRUE,
                     n  |-> Len(Neg_removeExpiredLocked(cNeg.run[i], now).order),
                     val |-> "none"]]]
    /\ last' = Did("Len", NoKey, 0, TRUE,
                   Len(Neg_removeExpiredLocked(cNeg.run[1], now).order), "none")
    /\ UNCHANGED <<now, touched>>
    /\ Neg_Frame

\* The ticker of one run fires between two calls: removeExpiredEntries
\* there, nothing in the other run.
Twin_removeExpiredEntries ==
    \E i \in Twin_Runs :
        /\ last = Idle
        /\ cNeg.run[i].runCleanup = "select"
        /\ cNeg' = [cNeg EXCEPT
                      !.run[i] = Neg_removeExpiredLocked(cNeg.run[i], now)]
        /\ cNeg' # cNeg
        /\ UNCHANGED <<now, last, touched>>
        /\ Neg_Frame

Twin_Next ==
    \/ Twin_SetWithTTL
    \/ Twin_Get
    \/ Twin_Len
    \/ Twin_removeExpiredEntries
    \/ Return
    \/ Tick

SpecNegTwin == Twin_Init /\ [][Twin_Next]_vars

\* C34: with the calls and the clock readings fixed, the sweeper does not
\* show: two runs that differ only in when their sweeps run return the
\* same result from every Get and every Len.
C34_SweepsDoNotShow ==
    impl = "negTwin" => cNeg.res[1] = cNeg.res[2]

\* ================================================== agent10, timer cache
\* src/agent10/internal/lru/lru.go: type Cache[K, V]; every entry with a
\* ttl has a time.AfterFunc timer.  An entry's timer is "nil", "armed"
\* (scheduled, not fired) or "fired"; `callbacks` holds the expire(key,
\* expiresAt) calls of fired timers that have not yet taken the lock.

A10_New(capacity) ==
    [capacity  |-> capacity,
     entries   |-> {},
     order     |-> <<>>,
     callbacks |-> {}]

A10_expirationTime(t, ttl) == IF ttl <= 0 THEN ZeroTime ELSE t + ttl

\* Get's test (line 90): the entry is live.
A10_live(ent, t) == ent.expiresAt = ZeroTime \/ t < ent.expiresAt

\* order.Remove, delete(entries), timer.Stop(): an armed timer never fires,
\* the callback of a fired one stays.
A10_removeElementLocked(c, k) ==
    [c EXCEPT !.order = ListRemove(@, k),
              !.entries = @ \ {k}]

A10_evictOldestLocked(c) ==
    IF c.order = <<>> THEN c
    ELSE A10_removeElementLocked(c, Back(c.order).key)

\* A faulty Set, which on an update keeps the expiry the entry had.
A10_SetState_KeepsExpiry(c, key, value, ttl, t0) ==
    IF key \in c.entries
    THEN [c EXCEPT !.order =
             MoveToFront([i \in 1..Len(@) |->
                            IF @[i].key = key
                            THEN [@[i] EXCEPT !.value = value] ELSE @[i]], key)]
    ELSE LET ent == [key |-> key, value |-> value,
                     expiresAt |-> IF ttl <= 0 THEN ZeroTime ELSE t0 + ttl,
                     timer |-> IF ttl > 0 THEN "armed" ELSE "nil"]
             q == [c EXCEPT !.order = PushFront(@, ent),
                            !.entries = @ \cup {key}]
         IN  IF Len(q.order) > q.capacity
             THEN [q EXCEPT !.order = ListRemove(@, Back(q.order).key),
                            !.entries = @ \ {Back(q.order).key}]
             ELSE q

\* A faulty Set, which on an update stops the timer and schedules none.
A10_SetState_NoTimerOnRefresh(c, key, value, ttl, t0) ==
    LET ent == [key |-> key, value |-> value,
                expiresAt |-> A10_expirationTime(t0, ttl),
                timer |-> IF ttl > 0 THEN "armed" ELSE "nil"]
    IN  IF key \in c.entries
        THEN [c EXCEPT !.order =
                 MoveToFront([i \in 1..Len(@) |->
                                IF @[i].key = key
                                THEN [ent EXCEPT !.timer = "nil"]
                                ELSE @[i]], key)]
        ELSE LET q == [c EXCEPT !.order = PushFront(@, ent),
                                !.entries = @ \cup {key}]
             IN  IF Len(q.order) > q.capacity
                 THEN A10_evictOldestLocked(q) ELSE q

\* Set: t0 is the clock reading taken before the lock.
A10_SetState(c, key, value, ttl, t0) ==
    LET ent == [key |-> key, value |-> value,
                expiresAt |-> A10_expirationTime(t0, ttl),
                timer |-> IF ttl > 0 THEN "armed" ELSE "nil"]
    IN  IF key \in c.entries
        THEN [c EXCEPT !.order =
                 MoveToFront([i \in 1..Len(@) |->
                                IF @[i].key = key THEN ent ELSE @[i]], key)]
        ELSE LET q == [c EXCEPT !.order = PushFront(@, ent),
                                !.entries = @ \cup {key}]
             IN  IF Len(q.order) > q.capacity
                 THEN A10_evictOldestLocked(q) ELSE q

A10_GetFound(c, key, t) ==
    /\ key \in c.entries
    /\ A10_live(ElemOf(c.order, key), t)

A10_GetValue(c, key, t) ==
    IF A10_GetFound(c, key, t) THEN ElemOf(c.order, key).value ELSE "none"

A10_GetState(c, key, t) ==
    IF key \notin c.entries THEN c
    ELSE IF A10_live(ElemOf(c.order, key), t)
         THEN [c EXCEPT !.order = MoveToFront(@, key)]
         ELSE A10_removeElementLocked(c, key)

A10_DeleteState(c, key) ==
    IF key \notin c.entries THEN c ELSE A10_removeElementLocked(c, key)

\* A faulty expire, which removes whatever entry the key has.
A10_expireRemoves_AnyEntry(c, cb) == cb.key \in c.entries

\* expire(key, expiresAt), the timer's callback.
A10_expireRemoves(c, cb) ==
    /\ cb.key \in c.entries
    /\ ElemOf(c.order, cb.key).expiresAt = cb.expiresAt

A10_expireState(c, cb) ==
    LET d == [c EXCEPT !.callbacks = @ \ {cb}]
    IN  IF A10_expireRemoves(c, cb)
        THEN A10_removeElementLocked(d, cb.key) ELSE d

A10_Frame ==
    UNCHANGED <<impl, c11, cJan, c12, cNeg, c1,
                cPut, c13, c14, c8, cHT, cLC>>

A10_Init ==
    /\ OnlyImpl("agent10")
    /\ now = 1
    /\ last = Idle
    /\ touched = <<>>
    /\ \E capacity \in Caps : c10 = A10_New(capacity)

A10_Set ==
    \E key \in Keys, value \in Vals, ttl \in TTLs, t0 \in Earlier(now) :
        /\ last = Idle
        /\ c10' = A10_SetState(c10, key, value, ttl, t0)
        /\ last' = Did("Set", key, ttl, TRUE,
                       Cardinality(c10.entries \ c10'.entries), value)
        /\ touched' = Touch(touched, key, c10'.entries)
        /\ UNCHANGED now
        /\ A10_Frame

A10_Get ==
    \E key \in Keys :
        /\ last = Idle
        /\ c10' = A10_GetState(c10, key, now)
        /\ last' = Did("Get", key, 0, A10_GetFound(c10, key, now),
                       Cardinality(c10.entries \ c10'.entries),
                       A10_GetValue(c10, key, now))
        /\ touched' = Touch(touched,
                            IF A10_GetFound(c10, key, now) THEN key ELSE NoKey,
                            c10'.entries)
        /\ UNCHANGED now
        /\ A10_Frame

A10_Delete ==
    \E key \in Keys :
        /\ last = Idle
        /\ c10' = A10_DeleteState(c10, key)
        /\ last' = Did("Delete", key, 0, key \in c10.entries, 0, "none")
        /\ touched' = Touch(touched, NoKey, c10'.entries)
        /\ UNCHANGED now
        /\ A10_Frame

A10_Len ==
    /\ last = Idle
    /\ last' = Did("Len", NoKey, 0, TRUE, Len(c10.order), "none")
    /\ UNCHANGED <<now, touched, c10>>
    /\ A10_Frame

\* An armed timer fires, at its instant or later: its callback is started.
\* At most MaxPending started callbacks wait for the lock at a time.
A10_timerFires ==
    \E i \in 1..Len(c10.order) :
        /\ last = Idle
        /\ c10.order[i].timer = "armed"
        /\ now >= c10.order[i].expiresAt
        /\ Cardinality(c10.callbacks) < MaxPending
        /\ c10' = [c10 EXCEPT !.order[i].timer = "fired",
                              !.callbacks = @ \cup
                                  {[key |-> c10.order[i].key,
                                    expiresAt |-> c10.order[i].expiresAt]}]
        /\ UNCHANGED <<now, last, touched>>
        /\ A10_Frame

\* A started callback takes the lock and runs expire.
A10_expire ==
    \E cb \in c10.callbacks :
        /\ last = Idle
        /\ c10' = A10_expireState(c10, cb)
        /\ last' = Did("expire", cb.key, 0, A10_expireRemoves(c10, cb),
                       Cardinality(c10.entries \ c10'.entries), "none")
        /\ touched' = Touch(touched, NoKey, c10'.entries)
        /\ UNCHANGED now
        /\ A10_Frame

A10_Next ==
    \/ A10_Set
    \/ A10_Get
    \/ A10_Delete
    \/ A10_Len
    \/ A10_timerFires
    \/ A10_expire
    \/ Return
    \/ Tick

Spec10 == A10_Init /\ [][A10_Next]_vars

\* C35: the callback expire(key, expiresAt) removes the entry of its key
\* only if that entry's expiresAt is the instant the timer was set for,
\* and removes nothing else.  So whatever Set, Get, Delete, eviction and
\* late timers do, a timer never removes an entry that has no expiry or
\* whose expiry is still ahead, be it a refreshed entry or one set anew
\* after a Delete or an eviction.
C35_TimerRemovesOnlyItsEntry ==
    [][(impl = "agent10" /\ last = Idle /\ last'.op = "expire") =>
         LET gone == c10.entries \ c10'.entries
         IN  /\ gone \subseteq {last'.key}
             /\ c10'.entries \subseteq c10.entries
             /\ c10'.order = SelectSeq(c10.order, LAMBDA e : e.key \notin gone)
             /\ \A k \in gone :
                   /\ ElemOf(c10.order, k).expiresAt # ZeroTime
                   /\ ElemOf(c10.order, k).expiresAt <= now
                   /\ [key |-> k, expiresAt |-> ElemOf(c10.order, k).expiresAt]
                         \in c10.callbacks
             /\ last'.ok <=> gone # {}
      ]_vars

\* A late callback found its key with another expiry, still ahead, and
\* left the entry.
C35_Witness ==
    /\ impl = "agent10"
    /\ last.op = "expire"
    /\ ~last.ok
    /\ last.key \in c10.entries
    /\ ElemOf(c10.order, last.key).expiresAt > now

\* ----------------------------------------------- agent10: timers do fire
\* The timer of the entry under key k fires.
A10_timerFiresFor(k) ==
    /\ A10_timerFires
    /\ k \in c10.entries
    /\ ElemOf(c10.order, k).timer = "armed"
    /\ ElemOf(c10'.order, k).timer = "fired"

\* Time passes, a call returns to its caller, a timer that is due and not
\* stopped fires, and a started callback gets the lock, however often the
\* callers call in between.
Spec10Live ==
    /\ A10_Init
    /\ [][A10_Next]_vars
    /\ WF_vars(Return)
    /\ SF_vars(Tick)
    /\ \A k \in Keys : SF_vars(A10_timerFiresFor(k))
    /\ SF_vars(A10_expire)

\* The timers pending for the entry e: its own if armed, and the started
\* callbacks for its key and expiry.
A10_pendingTimers(c, e) ==
    (IF e.timer = "armed" THEN 1 ELSE 0)
    + Cardinality({cb \in c.callbacks :
                      cb.key = e.key /\ cb.expiresAt = e.expiresAt})

\* C36: every entry stored with a ttl > 0 is in the end removed by its
\* timer with no call of any caller needed, unless a refresh, a Delete or
\* an eviction comes first (for the expiry instants the clock of the model
\* reaches); and every resident entry with an expiry has exactly one
\* timer pending for that expiry.
C36_TimersRemoveEveryEntry ==
    /\ \A k \in Keys : \A e \in 1..MaxTime :
          (impl = "agent10" /\ k \in c10.entries
             /\ ElemOf(c10.order, k).expiresAt = e)
          ~> ~(k \in c10.entries /\ ElemOf(c10.order, k).expiresAt = e)
    /\ [](impl = "agent10" =>
            \A i \in 1..Len(c10.order) :
               c10.order[i].expiresAt # ZeroTime =>
                  A10_pendingTimers(c10, c10.order[i]) = 1)

\* C36, amended: every entry stored with a ttl > 0 is in the end removed
\* with no call of any caller needed, unless a refresh, a Delete or an
\* eviction comes first; and every resident entry with an expiry has a
\* timer pending for that expiry, its own, armed or with its callback
\* waiting for the lock (a callback started by an earlier timer for the
\* same instant may be waiting as well).
C36_EveryEntryHasItsTimer ==
    /\ \A k \in Keys : \A e \in 1..MaxTime :
          (impl = "agent10" /\ k \in c10.entries
             /\ ElemOf(c10.order, k).expiresAt = e)
          ~> ~(k \in c10.entries /\ ElemOf(c10.order, k).expiresAt = e)
    /\ [](impl = "agent10" =>
            \A i \in 1..Len(c10.order) :
               c10.order[i].expiresAt # ZeroTime =>
                  /\ c10.order[i].timer # "nil"
                  /\ A10_pendingTimers(c10, c10.order[i]) >= 1
                  /\ c10.order[i].timer = "fired" =>
                        [key |-> c10.order[i].key,
                         expiresAt |-> c10.order[i].expiresAt]
                           \in c10.callbacks)

\* The callback of a timer removed its entry, the one other entry of the
\* cache having no expiry.
C36_Witness ==
    /\ impl = "agent10"
    /\ last.op = "expire"
    /\ last.ok
    /\ last.n = 1
    /\ Len(c10.order) = 1
    /\ c10.order[1].expiresAt = ZeroTime

\* ================================================================= agent1
\* src/agent1/lru.go: type LRUCache.

\* A faulty New, which keeps a capacity <= 0.
A1_New_KeepsCapacity(capacity) ==
    [capacity  |-> capacity,
     items     |-> {},
     evictList |-> <<>>,
     stopChan  |-> "open"]

A1_New(capacity) ==
    [capacity  |-> IF capacity <= 0 THEN 1 ELSE capacity,
     items     |-> {},
     evictList |-> <<>>,
     stopChan  |-> "open"]

\* time.Now().After(ent.expiresAt): no entry is exempt.
A1_expired(ent, t) == t > ent.expiresAt

A1_removeEntry(c, k) ==
    [c EXCEPT !.items = @ \ {k},
              !.evictList = ListRemove(@, k)]

A1_evictLRU(c) ==
    IF c.evictList = <<>> THEN c
    ELSE A1_removeEntry(c, Back(c.evictList).key)

A1_SetState(c, key, value, ttl, t) ==
    LET ent == [key |-> key, value |-> value, expiresAt |-> t + ttl]
    IN  IF key \in c.items
        THEN [c EXCEPT !.evictList =
                 MoveToFront([i \in 1..Len(@) |->
                                IF @[i].key = key THEN ent ELSE @[i]], key)]
        ELSE LET q == [c EXCEPT !.evictList = PushFront(@, ent),
                                !.items = @ \cup {key}]
             IN  IF Cardinality(q.items) > q.capacity
                 THEN A1_evictLRU(q) ELSE q

A1_GetFound(c, key, t) ==
    /\ key \in c.items
    /\ ~A1_expired(ElemOf(c.evictList, key), t)

A1_GetValue(c, key, t) ==
    IF A1_GetFound(c, key, t) THEN ElemOf(c.evictList, key).value ELSE "none"

A1_GetState(c, key, t) ==
    IF key \notin c.items THEN c
    ELSE IF A1_expired(ElemOf(c.evictList, key), t)
         THEN A1_removeEntry(c, key)
         ELSE [c EXCEPT !.evictList = MoveToFront(@, key)]

A1_DeleteState(c, key) ==
    IF key \notin c.items THEN c ELSE A1_removeEntry(c, key)

A1_ClearState(c) == [c EXCEPT !.items = {}, !.evictList = <<>>]

A1_removeExpired(c, t) ==
    LET dead == {c.evictList[i].key : i \in
                    {j \in 1..Len(c.evictList) : A1_expired(c.evictList[j], t)}}
    IN  [c EXCEPT !.evictList = SelectSeq(@, LAMBDA e : ~A1_expired(e, t)),
                  !.items = @ \ dead]

A1_Frame ==
    UNCHANGED <<impl, c11, cJan, c12, cNeg, c10,
                cPut, c13, c14, c8, cHT, cLC>>

A1_Init ==
    /\ OnlyImpl("agent1")
    /\ now = 1
    /\ last = Idle
    /\ touched = <<>>
    /\ \E capacity \in (0 - 1)..MaxCap : c1 = A1_New(capacity)

A1_Set ==
    \E key \in Keys, value \in Vals, ttl \in TTLs :
        /\ last = Idle
        /\ c1' = A1_SetState(c1, key, value, ttl, now)
        /\ last' = Did("Set", key, ttl, TRUE,
                       Cardinality(c1.items \ c1'.items), value)
        /\ touched' = Touch(touched, key, c1'.items)
        /\ UNCHANGED now
        /\ A1_Frame

A1_Get ==
    \E key \in Keys :
        /\ last = Idle
        /\ c1' = A1_GetState(c1, key, now)
        /\ last' = Did("Get", key, 0, A1_GetFound(c1, key, now),
                       Cardinality(c1.items \ c1'.items),
                       A1_GetValue(c1, key, now))
        /\ touched' = Touch(touched,
                            IF A1_GetFound(c1, key, now) THEN key ELSE NoKey,
                            c1'.items)
        /\ UNCHANGED now
        /\ A1_Frame

A1_Delete ==
    \E key \in Keys :
        /\ last = Idle
        /\ c1' = A1_DeleteState(c1, key)
        /\ last' = Did("Delete", key, 0, key \in c1.items, 0, "none")
        /\ touched' = Touch(touched, NoKey, c1'.items)
        /\ UNCHANGED now
        /\ A1_Frame

A1_Clear ==
    /\ last = Idle
    /\ c1' = A1_ClearState(c1)
    /\ last' = Did("Clear", NoKey, 0, TRUE, 0, "none")
    /\ touched' = Touch(touched, NoKey, c1'.items)
    /\ UNCHANGED now
    /\ A1_Frame

A1_Len ==
    /\ last = Idle
    /\ last' = Did("Len", NoKey, 0, TRUE, Cardinality(c1.items), "none")
    /\ UNCHANGED <<now, touched, c1>>
    /\ A1_Frame

\* cleanupExpired: the select takes the ticker case and calls removeExpired.
A1_cleanupExpired ==
    /\ last = Idle
    /\ c1.stopChan = "open"
    /\ c1' = A1_removeExpired(c1, now)
    /\ last' = Did("removeExpired", NoKey, 0, TRUE,
                   Cardinality(c1.items \ c1'.items), "none")
    /\ touched' = Touch(touched, NoKey, c1'.items)
    /\ UNCHANGED now
    /\ A1_Frame

A1_Next ==
    \/ A1_Set
    \/ A1_Get
    \/ A1_Delete
    \/ A1_Clear
    \/ A1_Len
    \/ A1_cleanupExpired
    \/ Return
    \/ Tick

Spec1 == A1_Init /\ [][A1_Next]_vars

\* C8: a ttl <= 0 expires at once: after Set(k, v, ttl) with ttl <= 0 a
\* Get(k) at the Set's own clock reading reports not found.
C8_NonPositiveTTLExpiresAtOnce ==
    (impl = "agent1" /\ last.op = "Set" /\ last.ttl <= 0) =>
        ~A1_GetFound(c1, last.key, now)

\* C23: New(c) with c <= 0 builds a cache of capacity 1, and a cache of
\* capacity 1 keeps only the key set last: right after Set(k, ...) k is
\* the only resident key and Get reports every other key not found.
C23_CapacityOneKeepsLastSet ==
    /\ \A c \in (0 - 1)..0 : A1_New(c).capacity = 1
    /\ impl = "agent1" => c1.capacity >= 1
    /\ (impl = "agent1" /\ c1.capacity = 1) => Len(c1.evictList) <= 1
    /\ (impl = "agent1" /\ c1.capacity = 1 /\ last.op = "Set") =>
          /\ c1.items = {last.key}
          /\ KeysOf(c1.evictList) = {last.key}
          /\ \A k \in Keys \ {last.key} : ~A1_GetFound(c1, k, now)

\* A Set on a cache of capacity 1 put another key out.
C23_Witness ==
    /\ impl = "agent1"
    /\ c1.capacity = 1
    /\ last.op = "Set"
    /\ last.n = 1

\* ====================================== two packages under one specification
\* The ErrNegativeTTL cache or the timer cache.
LazyInit == Neg_Init \/ A10_Init

LazyNext ==
    \/ impl = "neg" /\ Neg_Next
    \/ impl = "agent10" /\ A10_Next

SpecLazy == LazyInit /\ [][LazyNext]_vars

\* C5: a Get on a key that is resident but expired reports not found and
\* removes that entry from the map and from the order list: the list is one
\* shorter and every other entry keeps its content and its position.
C5_GetRemovesExpired ==
    [][LET key == last'.key
           due(e) == e.expiresAt # ZeroTime /\ now >= e.expiresAt
       IN  (last = Idle /\ last'.op = "Get") =>
             /\ (impl = "neg" /\ key \in cNeg.entries
                   /\ due(ElemOf(cNeg.order, key))) =>
                   /\ ~last'.ok
                   /\ cNeg'.entries = cNeg.entries \ {key}
                   /\ cNeg'.order = ListRemove(cNeg.order, key)
                   /\ Len(cNeg'.order) = Len(cNeg.order) - 1
             /\ (impl = "agent10" /\ key \in c10.entries
                   /\ due(ElemOf(c10.order, key))) =>
                   /\ ~last'.ok
                   /\ c10'.entries = c10.entries \ {key}
                   /\ c10'.order = ListRemove(c10.order, key)
                   /\ Len(c10'.order) = Len(c10.order) - 1
      ]_vars

\* A Get has just removed the expired key it was asked for, and another
\* entry stayed.
C5_Witness ==
    /\ last.op = "Get"
    /\ ~last.ok
    /\ last.n = 1
    /\ \/ impl = "neg" /\ Len(cNeg.order) = 1
       \/ impl = "agent10" /\ Len(c10.order) = 1

\* ============================= the janitor cache or the timer cache
RefreshInit == Jan_Init \/ A10_Init

RefreshNext ==
    \/ impl = "janitor" /\ Jan_Next
    \/ impl = "agent10" /\ A10_Next

SpecRefresh == RefreshInit /\ [][RefreshNext]_vars

\* C11: a Set on a resident key replaces value and expiry from scratch: the
\* entry then expires at t + ttl for the clock reading t the Set took
\* (never, for ttl <= 0), whatever its expiry was; and until that instant
\* Get finds it with the new value, and neither a sweep, a Get nor the
\* callback of an earlier timer removes it.
C11_UpdateResetsTTL ==
    [][LET list == IF impl = "janitor" THEN cJan.list ELSE c10.order
           list2 == IF impl = "janitor" THEN cJan'.list ELSE c10'.order
           key == last'.key
           live(e) == e.expiresAt = ZeroTime \/ now < e.expiresAt
       IN  last = Idle =>
             /\ (last'.op = "Set" /\ key \in KeysOf(list)) =>
                   /\ key \in KeysOf(list2)
                   /\ ElemOf(list2, key).value = last'.val
                   /\ \E t \in Earlier(now) :
                         ElemOf(list2, key).expiresAt =
                            IF last'.ttl > 0 THEN t + last'.ttl ELSE ZeroTime
             /\ (last'.op = "Get" /\ key \in KeysOf(list)
                   /\ live(ElemOf(list, key))) =>
                   /\ last'.ok
                   /\ last'.val = ElemOf(list, key).value
             /\ last'.op \in {"Get", "Peek", "Len", "expireScan", "expire"} =>
                   \A k \in KeysOf(list) :
                       live(ElemOf(list, k)) =>
                           /\ k \in KeysOf(list2)
                           /\ ElemOf(list2, k).expiresAt =
                                  ElemOf(list, k).expiresAt
      ]_vars

\* The timer cache: the first timer of a key has fired and its callback is
\* waiting, a Set has given the key a later expiry, and Get has just found
\* the key at a reading not before the first expiry.
C11_Witness ==
    /\ impl = "agent10"
    /\ last.op = "Get" /\ last.ok
    /\ \E cb \in c10.callbacks :
          /\ cb.key = last.key
          /\ now >= cb.expiresAt
          /\ ElemOf(c10.order, last.key).expiresAt > cb.expiresAt

\* Len at the clock reading t: what is left after purgeExpiredLocked(t).
A11_LenAt(c, t) == Len(A11_purgeExpiredLocked(c, t).evictionList)

\* C27: a Set or SetWithTTL of a key that Get finds (resident, not expired
\* at the reading the Set takes) leaves the number of entries as it was:
\* Len at that reading is the same before and after, every key that was
\* not expired is still there, and the key is at the front of the list.
\* (last.ok of a Set records that the key was found.)
C27_SetOnFoundKeepsCount ==
    [][(impl = "agent11" /\ last = Idle
        /\ last'.op \in {"Set", "SetWithTTL"}
        /\ A11_GetFound(c11, last'.key, now)) =>
         /\ A11_LenAt(c11', now) = A11_LenAt(c11, now)
         /\ now' = now => A11_LenAt(c11', now') = A11_LenAt(c11, now)
         /\ c11'.items = {k \in Keys : A11_GetFound(c11, k, now)}
         /\ \A k \in c11'.items : A11_GetFound(c11', k, now)
         /\ c11'.evictionList[1].key = last'.key
      ]_vars

\* A Set found its key at the back of a full list, with another live key
\* in front of it.
C27_Witness ==
    /\ impl = "agent11"
    /\ last.op \in {"Set", "SetWithTTL"}
    /\ last.ok
    /\ c11.capacity = MaxCap
    /\ Len(c11.evictionList) = MaxCap

\* C32: an expired entry is absent for Delete too: Delete(k) returns true
\* exactly when Get(k) at the same clock reading reports found, whether
\* or not a sweep has purged an expired k already.
C32_DeleteSeesExpiredAsAbsent ==
    [][(impl = "agent11" /\ last = Idle /\ last'.op = "Delete") =>
          (last'.ok <=> A11_GetFound(c11, last'.key, now))]_vars

\* C33: a Set or SetWithTTL of a key that Get does not find removes every
\* entry that has expired at the reading it takes, and puts an unexpired
\* entry out only if the unexpired entries alone fill the cache; the one
\* it then puts out is the least recently used of them.
C33_PurgeBeforeEvict ==
    [][(impl = "agent11" /\ last = Idle
        /\ last'.op \in {"Set", "SetWithTTL"}
        /\ ~A11_GetFound(c11, last'.key, now)) =>
         LET live == {k \in c11.items : A11_GetFound(c11, k, now)}
             gone == live \ c11'.items
         IN  /\ c11'.items \ {last'.key} \subseteq live
             /\ gone # {} => Cardinality(live) >= c11.capacity
             /\ \A k \in gone :
                   \A i \in 1..Len(c11.evictionList) :
                      c11.evictionList[i].key = k =>
                         \A j \in (i + 1)..Len(c11.evictionList) :
                            c11.evictionList[j].key \notin c11'.items
             /\ Cardinality(live) < c11.capacity =>
                   c11'.items = live \cup {last'.key}
      ]_vars

\* A Set of a new key found one other entry, expired, in a cache with
\* room for two: it purged that entry and put nothing else out.
C33_Witness ==
    /\ impl = "agent11"
    /\ last.op \in {"Set", "SetWithTTL"}
    /\ ~last.ok
    /\ last.n = 1
    /\ c11.capacity = MaxCap
    /\ c11.items = {last.key}

\* ----------------------- agent11, janitor cache, timer cache: Delete
DeleteInit == A11_Init \/ Jan_Init \/ A10_Init

DeleteNext ==
    \/ (impl = "agent11" /\ A11_Next)
    \/ (impl = "janitor" /\ Jan_Next)
    \/ (impl = "agent10" /\ A10_Next)

SpecDelete == DeleteInit /\ [][DeleteNext]_vars

\* C24: Delete(k) returns true exactly when k was resident and takes it
\* out of the map and of the list, leaving the other entries; a Get(k) or
\* a second Delete(k) that comes next finds no k (not found, false), and
\* so does the Delete of a key that was never stored.
C24_DeleteRemovesAndReports ==
    [][LET map == IF impl = "agent11" THEN c11.items
                  ELSE IF impl = "janitor" THEN cJan.items ELSE c10.entries
           lst == IF impl = "agent11" THEN c11.evictionList
                  ELSE IF impl = "janitor" THEN cJan.list ELSE c10.order
           mapN == IF impl = "agent11" THEN c11'.items
                   ELSE IF impl = "janitor" THEN cJan'.items ELSE c10'.entries
           lstN == IF impl = "agent11" THEN c11'.evictionList
                   ELSE IF impl = "janitor" THEN cJan'.list ELSE c10'.order
       IN  /\ (last = Idle /\ last'.op = "Delete") =>
                /\ last'.ok <=> (last'.key \in map)
                /\ mapN = map \ {last'.key}
                /\ lstN = SelectSeq(lst, LAMBDA e : e.key # last'.key)
           /\ (last = Idle /\ last'.op \in {"Get", "Delete"}
               /\ last'.key \notin KeysOf(lst)) => ~last'.ok
           /\ KeysOf(lstN) = mapN
      ]_vars

\* A Delete returned true and left another entry in the cache.
C24_Witness ==
    /\ impl \in {"agent11", "janitor", "agent10"}
    /\ last.op = "Delete"
    /\ last.ok
    /\ \/ impl = "agent11" /\ Len(c11.evictionList) = 1
       \/ impl = "janitor" /\ Len(cJan.list) = 1
       \/ impl = "agent10" /\ Len(c10.order) = 1

\* =============================== the agent11 cache or the janitor cache
PeekInit == A11_Init \/ Jan_Init

PeekNext ==
    \/ impl = "agent11" /\ A11_Next
    \/ impl = "janitor" /\ Jan_Next

SpecPeek == PeekInit /\ [][PeekNext]_vars

\* C26: a Peek of a key that is resident and not expired returns the value
\* a Get at the same clock reading returns, and leaves the cache as it
\* was, recency order included: what is evicted later is what would be
\* evicted had the Peek not been issued, a Get after the Peek leaves what
\* a Get without it leaves, and a second Peek changes nothing either.
C26_PeekKeepsOrder ==
    [][(last = Idle /\ last'.op = "Peek" /\ last'.ok) =>
         /\ impl = "agent11" =>
               /\ A11_GetFound(c11, last'.key, now)
               /\ last'.val = ElemOf(c11.evictionList, last'.key).value
               /\ last'.val =
                     ElemOf(A11_GetState(c11, last'.key, now).evictionList,
                            last'.key).value
               /\ c11' = c11
               /\ A11_PeekState(c11', last'.key, now) = c11
         /\ impl = "janitor" =>
               /\ Jan_GetFound(cJan, last'.key, now)
               /\ last'.val = ElemOf(cJan.list, last'.key).value
               /\ last'.val =
                     ElemOf(Jan_GetState(cJan, last'.key, now).list,
                            last'.key).value
               /\ cJan' = cJan
               /\ Jan_PeekState(cJan', last'.key, now) = cJan
      ]_vars

\* A Peek found the key at the back of a full list, where a Get would
\* have moved it.
C26_Witness ==
    /\ last.op = "Peek"
    /\ last.ok
    /\ \/ /\ impl = "agent11"
          /\ Len(c11.evictionList) = MaxCap
          /\ c11.evictionList[MaxCap].key = last.key
       \/ /\ impl = "janitor"
          /\ Len(cJan.list) = MaxCap
          /\ cJan.list[MaxCap].key = last.key

\* ================================================================ agent13
\* src/agent13/lru.go: type Cache.  `cleaner` is the position of the
\* cleanupExpired goroutine: "none" (not started), "select" or "exited".

A13_DefaultCapacity == 100

A13_New(capacity, cleanupInterval) ==
    [capacity    |-> IF capacity <= 0 THEN A13_DefaultCapacity ELSE capacity,
     items       |-> {},
     evictList   |-> <<>>,
     stopCleanup |-> "open",
     cleaner     |-> IF cleanupInterval > 0 THEN "select" ELSE "none",
     panicked    |-> FALSE]

\* !ent.expiration.IsZero() && now.After(ent.expiration)
A13_expired(ent, t) == ent.expiration # ZeroTime /\ t > ent.expiration

A13_removeElement(c, k) ==
    [c EXCEPT !.items = @ \ {k},
              !.evictList = ListRemove(@, k)]

A13_SetState(c, key, value, ttl, t) ==
    LET ent == [key |-> key, value |-> value,
                expiration |-> IF ttl > 0 THEN t + ttl ELSE ZeroTime]
    IN  IF key \in c.items
        THEN [c EXCEPT !.evictList =
                 MoveToFront([i \in 1..Len(@) |->
                                IF @[i].key = key THEN ent ELSE @[i]], key)]
        ELSE LET q == [c EXCEPT !.evictList = PushFront(@, ent),
                                !.items = @ \cup {key}]
             IN  IF Len(q.evictList) > q.capacity
                 THEN A13_removeElement(q, Back(q.evictList).key) ELSE q

A13_GetFound(c, key, t) ==
    /\ key \in c.items
    /\ ~A13_expired(ElemOf(c.evictList, key), t)

A13_GetState(c, key, t) ==
    IF key \notin c.items THEN c
    ELSE IF A13_expired(ElemOf(c.evictList, key), t)
         THEN A13_removeElement(c, key)
         ELSE [c EXCEPT !.evictList = MoveToFront(@, key)]

\* A faulty sweep, which walks from the back and stops at the first entry
\* that has not expired.
A13_removeExpiredItems_StopsEarly(c, t) ==
    LET n == Len(c.evictList)
        keep == IF \E i \in 1..n : ~A13_expired(c.evictList[i], t)
                THEN CHOOSE i \in 1..n :
                        /\ ~A13_expired(c.evictList[i], t)
                        /\ \A j \in (i + 1)..n : A13_expired(c.evictList[j], t)
                ELSE 0
    IN  [c EXCEPT !.evictList = SubSeq(@, 1, keep),
                  !.items = {c.evictList[i].key : i \in 1..keep}]

A13_removeExpiredItems(c, t) ==
    [c EXCEPT !.evictList = SelectSeq(@, LAMBDA e : ~A13_expired(e, t)),
              !.items = {c.evictList[i].key : i \in
                           {j \in 1..Len(c.evictList) :
                               ~A13_expired(c.evictList[j], t)}}]

A13_Frame ==
    UNCHANGED <<impl, c11, cJan, c12, cNeg, c10, c1, cPut, c14, c8, cHT, cLC>>

A13_Init ==
    /\ OnlyImpl("agent13")
    /\ now = 1
    /\ last = Idle
    /\ touched = <<>>
    /\ \E capacity \in Caps, cleanupInterval \in 0..1 :
          c13 = A13_New(capacity, cleanupInterval)

A13_Set ==
    \E key \in Keys, value \in Vals, ttl \in TTLs :
        /\ last = Idle
        /\ c13' = A13_SetState(c13, key, value, ttl, now)
        /\ last' = Did("Set", key, ttl, TRUE,
                       Cardinality(c13.items \ c13'.items), value)
        /\ touched' = Touch(touched, key, c13'.items)
        /\ UNCHANGED now
        /\ A13_Frame

A13_Get ==
    \E key \in Keys :
        /\ last = Idle
        /\ c13' = A13_GetState(c13, key, now)
        /\ last' = Did("Get", key, 0, A13_GetFound(c13, key, now),
                       Cardinality(c13.items \ c13'.items),
                       IF A13_GetFound(c13, key, now)
                       THEN ElemOf(c13.evictList, key).value ELSE "none")
        /\ touched' = Touch(touched,
                            IF A13_GetFound(c13, key, now) THEN key ELSE NoKey,
                            c13'.items)
        /\ UNCHANGED now
        /\ A13_Frame

A13_Delete ==
    \E key \in Keys :
        /\ last = Idle
        /\ c13' = IF key \in c13.items THEN A13_removeElement(c13, key) ELSE c13
        /\ last' = Did("Delete", key, 0, key \in c13.items, 0, "none")
        /\ touched' = Touch(touched, NoKey, c13'.items)
        /\ UNCHANGED now
        /\ A13_Frame

A13_Len ==
    /\ last = Idle
    /\ last' = Did("Len", NoKey, 0, TRUE, Len(c13.evictList), "none")
    /\ UNCHANGED <<now, touched, c13>>
    /\ A13_Frame

A13_Clear ==
    /\ last = Idle
    /\ c13' = [c13 EXCEPT !.items = {}, !.evictList = <<>>]
    /\ last' = Did("Clear", NoKey, 0, TRUE, 0, "none")
    /\ touched' = <<>>
    /\ UNCHANGED now
    /\ A13_Frame

\* cleanupExpired: the select takes the ticker case and calls
\* removeExpiredItems.
A13_cleanupExpired ==
    /\ last = Idle
    /\ c13.cleaner = "select"
    /\ c13' = A13_removeExpiredItems(c13, now)
    /\ last' = Did("removeExpiredItems", NoKey, 0, TRUE,
                   Cardinality(c13.items \ c13'.items), "none")
    /\ touched' = Touch(touched, NoKey, c13'.items)
    /\ UNCHANGED now
    /\ A13_Frame

\* The operations of a cache that is never closed.
A13_OpenNext ==
    \/ A13_Set
    \/ A13_Get
    \/ A13_Delete
    \/ A13_Len
    \/ A13_Clear
    \/ A13_cleanupExpired
    \/ Return
    \/ Tick

\* The clock advances, callers take their results, and the sweeper's ticker
\* fires and the sweeper gets the mutex again and again (sync.Mutex hands
\* the lock to a goroutine that has waited for it).
Spec13Live ==
    /\ A13_Init
    /\ [][A13_OpenNext]_vars
    /\ WF_vars(Return)
    /\ SF_vars(Tick)
    /\ SF_vars(A13_cleanupExpired)

\* C12: with a sweeper running (cleanupInterval > 0) and the cache never
\* closed, no entry stored with ttl > 0 stays for ever once the clock can
\* pass its expiry, even if no caller asks for it: again and again the
\* clock has run to its last reading and no entry with an earlier expiry is
\* resident; and a sweep removes no entry without expiry.
C12_SweeperPurgesExpired ==
    /\ []<>(c13.cleaner = "select" =>
              /\ now = MaxTime
              /\ \A k \in c13.items :
                    \/ ElemOf(c13.evictList, k).expiration = ZeroTime
                    \/ ElemOf(c13.evictList, k).expiration >= MaxTime)
    /\ [][last'.op = "removeExpiredItems" =>
            \A k \in c13.items :
                ElemOf(c13.evictList, k).expiration = ZeroTime =>
                    /\ k \in c13'.items
                    /\ ElemOf(c13'.evictList, k) = ElemOf(c13.evictList, k)
         ]_vars

\* A sweep has just removed an expired entry and left one without expiry.
C12_Witness ==
    /\ impl = "agent13"
    /\ last.op = "removeExpiredItems" /\ last.n >= 1
    /\ \E k \in c13.items : ElemOf(c13.evictList, k).expiration = ZeroTime

\* Close: close(c.stopCleanup), which panics on a closed channel; the
\* call that panics does not return.
A13_Close ==
    /\ last = Idle
    /\ c13' = [c13 EXCEPT !.stopCleanup = "closed",
                          !.panicked = c13.stopCleanup = "closed"]
    /\ last' = Did("Close", NoKey, 0, c13.stopCleanup = "open", 0,
                   IF c13.stopCleanup = "open" THEN "none" ELSE "panic")
    /\ UNCHANGED <<now, touched>>
    /\ A13_Frame

\* cleanupExpired: the select takes the stopCleanup case and returns.
A13_cleanerStop ==
    /\ last = Idle
    /\ c13.cleaner = "select"
    /\ c13.stopCleanup = "closed"
    /\ c13' = [c13 EXCEPT !.cleaner = "exited"]
    /\ UNCHANGED <<now, last, touched>>
    /\ A13_Frame

A13_Next ==
    \/ A13_Set
    \/ A13_Get
    \/ A13_cleanupExpired
    \/ A13_Close
    \/ A13_cleanerStop
    \/ Return
    \/ Tick

\* ================================================================ agent14
\* src/agent14/lru.go: type Cache.  `cleaner` is the position of the
\* startCleanup goroutine: "none" (not started), "select" or "exited".

A14_DefaultCapacity == 128

A14_New(capacity, cleanupInterval) ==
    [capacity |-> IF capacity <= 0 THEN A14_DefaultCapacity ELSE capacity,
     items    |-> {},
     order    |-> <<>>,
     stopCh   |-> "open",
     cleaner  |-> IF cleanupInterval > 0 THEN "select" ELSE "none",
     panicked |-> FALSE]

\* Get's test: ent.expiresAt.IsZero() || time.Now().Before(ent.expiresAt)
A14_live(ent, t) == ent.expiresAt = ZeroTime \/ t < ent.expiresAt

\* removeExpired's test: !IsZero() && now.After(ent.expiresAt)
A14_expired(ent, t) == ent.expiresAt # ZeroTime /\ t > ent.expiresAt

A14_removeElementLocked(c, k) ==
    [c EXCEPT !.items = @ \ {k},
              !.order = ListRemove(@, k)]

A14_SetState(c, key, value, ttl, t) ==
    LET ent == [key |-> key, value |-> value,
                expiresAt |-> IF ttl > 0 THEN t + ttl ELSE ZeroTime]
    IN  IF key \in c.items
        THEN [c EXCEPT !.order =
                 MoveToFront([i \in 1..Len(@) |->
                                IF @[i].key = key THEN ent ELSE @[i]], key)]
        ELSE LET q == [c EXCEPT !.order = PushFront(@, ent),
                                !.items = @ \cup {key}]
             IN  IF Cardinality(q.items) > q.capacity
                 THEN A14_removeElementLocked(q, Back(q.order).key) ELSE q

A14_GetFound(c, key, t) ==
    /\ key \in c.items
    /\ A14_live(ElemOf(c.order, key), t)

A14_GetState(c, key, t) ==
    IF key \notin c.items THEN c
    ELSE IF A14_live(ElemOf(c.order, key), t)
         THEN [c EXCEPT !.order = MoveToFront(@, key)]
         ELSE A14_removeElementLocked(c, key)

A14_removeExpired(c, t) ==
    [c EXCEPT !.order = SelectSeq(@, LAMBDA e : ~A14_expired(e, t)),
              !.items = {c.order[i].key : i \in
                           {j \in 1..Len(c.order) :
                               ~A14_expired(c.order[j], t)}}]

A14_Frame ==
    UNCHANGED <<impl, c11, cJan, c12, cNeg, c10, c1, cPut, c13, c8, cHT, cLC>>

A14_Init ==
    /\ OnlyImpl("agent14")
    /\ now = 1
    /\ last = Idle
    /\ touched = <<>>
    /\ \E capacity \in Caps, cleanupInterval \in 0..1 :
          c14 = A14_New(capacity, cleanupInterval)

A14_Set ==
    \E key \in Keys, value \in Vals, ttl \in TTLs :
        /\ last = Idle
        /\ c14' = A14_SetState(c14, key, value, ttl, now)
        /\ last' = Did("Set", key, ttl, TRUE,
                       Cardinality(c14.items \ c14'.items), value)
        /\ touched' = Touch(touched, key, c14'.items)
        /\ UNCHANGED now
        /\ A14_Frame

A14_Get ==
    \E key \in Keys :
        /\ last = Idle
        /\ c14' = A14_GetState(c14, key, now)
        /\ last' = Did("Get", key, 0, A14_GetFound(c14, key, now),
                       Cardinality(c14.items \ c14'.items),
                       IF A14_GetFound(c14, key, now)
                       THEN ElemOf(c14.order, key).value ELSE "none")
        /\ touched' = Touch(touched,
                            IF A14_GetFound(c14, key, now) THEN key ELSE NoKey,
                            c14'.items)
        /\ UNCHANGED now
        /\ A14_Frame

\* startCleanup: the select takes the ticker case and calls removeExpired.
A14_startCleanup ==
    /\ last = Idle
    /\ c14.cleaner = "select"
    /\ c14' = A14_removeExpired(c14, now)
    /\ last' = Did("removeExpired", NoKey, 0, TRUE,
                   Cardinality(c14.items \ c14'.items), "none")
    /\ touched' = Touch(touched, NoKey, c14'.items)
    /\ UNCHANGED now
    /\ A14_Frame

\* Close: close(c.stopCh), which panics on a closed channel.
A14_Close ==
    /\ last = Idle
    /\ c14' = [c14 EXCEPT !.stopCh = "closed",
                          !.panicked = c14.stopCh = "closed"]
    /\ last' = Did("Close", NoKey, 0, c14.stopCh = "open", 0,
                   IF c14.stopCh = "open" THEN "none" ELSE "panic")
    /\ UNCHANGED <<now, touched>>
    /\ A14_Frame

\* startCleanup: the select takes the stopCh case and returns.
A14_cleanerStop ==
    /\ last = Idle
    /\ c14.cleaner = "select"
    /\ c14.stopCh = "closed"
    /\ c14' = [c14 EXCEPT !.cleaner = "exited"]
    /\ UNCHANGED <<now, last, touched>>
    /\ A14_Frame

A14_Next ==
    \/ A14_Set
    \/ A14_Get
    \/ A14_startCleanup
    \/ A14_Close
    \/ A14_cleanerStop
    \/ Return
    \/ Tick

\* --------------------------------------- agent14: Delete, Len and Clear

A14_DeleteState(c, key) ==
    IF key \notin c.items THEN c ELSE A14_removeElementLocked(c, key)

\* A faulty Clear, which makes a new map and keeps the list.
A14_ClearState_MapOnly(c) == [c EXCEPT !.items = {}]

\* Clear: a new map and order.Init(), under the write lock.
A14_ClearState(c) == [c EXCEPT !.items = {}, !.order = <<>>]

A14_Delete ==
    \E key \in Keys :
        /\ last = Idle
        /\ c14' = A14_DeleteState(c14, key)
        /\ last' = Did("Delete", key, 0, key \in c14.items, 0, "none")
        /\ touched' = Touch(touched, NoKey, c14'.items)
        /\ UNCHANGED now
        /\ A14_Frame

A14_Len ==
    /\ last = Idle
    /\ last' = Did("Len", NoKey, 0, TRUE, Cardinality(c14.items), "none")
    /\ UNCHANGED <<now, touched, c14>>
    /\ A14_Frame

A14_Clear ==
    /\ last = Idle
    /\ c14' = A14_ClearState(c14)
    /\ last' = Did("Clear", NoKey, 0, TRUE, Cardinality(c14.items), "none")
    /\ touched' = Touch(touched, NoKey, c14'.items)
    /\ UNCHANGED now
    /\ A14_Frame

\* The operations of a cache that is not closed.
A14_OpenNext ==
    \/ A14_Set
    \/ A14_Get
    \/ A14_Delete
    \/ A14_Len
    \/ A14_Clear
    \/ A14_startCleanup
    \/ Return
    \/ Tick

Spec14 == A14_Init /\ [][A14_OpenNext]_vars

\* C25: Clear empties the map and the list in one step: right after it
\* Len is 0 and Get finds none of the keys, the cache is as New made it
\* (same capacity, so later Sets fill it as they fill a fresh cache), and
\* whatever Set, Get, Delete, Clear and the sweeper do, the map and the
\* list hold the same keys, each once.
C25_ClearEmptiesBoth ==
    /\ [](impl = "agent14" =>
            /\ KeysOf(c14.order) = c14.items
            /\ Len(c14.order) = Cardinality(c14.items)
            /\ Len(c14.order) <= c14.capacity)
    /\ [][(impl = "agent14" /\ last'.op = "Clear") =>
            /\ c14'.items = {} /\ c14'.order = <<>>
            /\ c14' = [A14_New(c14.capacity, 0) EXCEPT
                          !.cleaner = c14.cleaner, !.stopCh = c14.stopCh]
            /\ \A k \in Keys, t \in now..MaxTime : ~A14_GetFound(c14', k, t)
         ]_vars
    /\ [][(impl = "agent14" /\ last.op = "Clear" /\ last'.op = "Len") =>
            last'.n = 0]_vars

\* Clear emptied a full cache.
C25_Witness ==
    /\ impl = "agent14"
    /\ last.op = "Clear"
    /\ last.n = MaxCap
    /\ c14.items = {}
    /\ c14.capacity = MaxCap
    /\ c14.cleaner = "select"

\* C31: Get and the sweep use the same expiry test: for every resident
\* entry and the current clock reading, the reading equal to expiresAt
\* included, Get reports the entry expired exactly when removeExpired run
\* at that reading removes it.
C31_GetAndSweepAgree ==
    impl = "agent14" =>
        \A k \in c14.items :
            ~A14_GetFound(c14, k, now)
                <=> k \notin A14_removeExpired(c14, now).items

\* ================================================================= agent8
\* src/unnamed/part_004: type LRU, with one ttl for the whole cache.

A8_NewLRU(capacity, ttl) ==
    [capacity |-> capacity,
     items    |-> {},
     lruList  |-> <<>>,
     ttl      |-> ttl,
     stopCh   |-> "open",
     cleaner  |-> IF ttl > 0 THEN "select" ELSE "none",
     panicked |-> FALSE]

\* !e.expiresAt.IsZero() && now.After(e.expiresAt)
A8_expired(e, t) == e.expiresAt # ZeroTime /\ t > e.expiresAt

A8_removeElement(c, k) ==
    [c EXCEPT !.items = @ \ {k},
              !.lruList = ListRemove(@, k)]

A8_SetState(c, key, value, t) ==
    LET e == [key |-> key, value |-> value,
              expiresAt |-> IF c.ttl > 0 THEN t + c.ttl ELSE ZeroTime]
    IN  IF key \in c.items
        THEN [c EXCEPT !.lruList =
                 MoveToFront([i \in 1..Len(@) |->
                                IF @[i].key = key THEN e ELSE @[i]], key)]
        ELSE LET q == IF Len(c.lruList) >= c.capacity
                      THEN A8_removeElement(c, Back(c.lruList).key) ELSE c
             IN  [q EXCEPT !.lruList = PushFront(@, e),
                           !.items = @ \cup {key}]

A8_GetFound(c, key, t) ==
    /\ key \in c.items
    /\ ~A8_expired(ElemOf(c.lruList, key), t)

A8_GetState(c, key, t) ==
    IF key \notin c.items THEN c
    ELSE IF A8_expired(ElemOf(c.lruList, key), t)
         THEN A8_removeElement(c, key)
         ELSE [c EXCEPT !.lruList = MoveToFront(@, key)]

A8_removeExpiredEntries(c, t) ==
    [c EXCEPT !.lruList = SelectSeq(@, LAMBDA e : ~A8_expired(e, t)),
              !.items = {c.lruList[i].key : i \in
                           {j \in 1..Len(c.lruList) :
                               ~A8_expired(c.lruList[j], t)}}]

A8_Frame ==
    UNCHANGED <<impl, c11, cJan, c12, cNeg, c10, c1, cPut, c13, c14, cHT, cLC>>

A8_Init ==
    /\ OnlyImpl("agent8")
    /\ now = 1
    /\ last = Idle
    /\ touched = <<>>
    /\ \E capacity \in Caps, ttl \in TTLs : c8 = A8_NewLRU(capacity, ttl)

A8_Set ==
    \E key \in Keys, value \in Vals :
        /\ last = Idle
        /\ c8' = A8_SetState(c8, key, value, now)
        /\ last' = Did("Set", key, c8.ttl, TRUE,
                       Cardinality(c8.items \ c8'.items), value)
        /\ touched' = Touch(touched, key, c8'.items)
        /\ UNCHANGED now
        /\ A8_Frame

A8_Get ==
    \E key \in Keys :
        /\ last = Idle
        /\ c8' = A8_GetState(c8, key, now)
        /\ last' = Did("Get", key, 0, A8_GetFound(c8, key, now),
                       Cardinality(c8.items \ c8'.items),
                       IF A8_GetFound(c8, key, now)
                       THEN ElemOf(c8.lruList, key).value ELSE "none")
        /\ touched' = Touch(touched,
                            IF A8_GetFound(c8, key, now) THEN key ELSE NoKey,
                            c8'.items)
        /\ UNCHANGED now
        /\ A8_Frame

\* cleanupExpired: the select takes the ticker case and calls
\* removeExpiredEntries.
A8_cleanupExpired ==
    /\ last = Idle
    /\ c8.cleaner = "select"
    /\ c8' = A8_removeExpiredEntries(c8, now)
    /\ last' = Did("removeExpiredEntries", NoKey, 0, TRUE,
                   Cardinality(c8.items \ c8'.items), "none")
    /\ touched' = Touch(touched, NoKey, c8'.items)
    /\ UNCHANGED now
    /\ A8_Frame

\* Close: close(l.stopCh), which panics on a closed channel.
A8_Close ==
    /\ last = Idle
    /\ c8' = [c8 EXCEPT !.stopCh = "closed",
                        !.panicked = c8.stopCh = "closed"]
    /\ last' = Did("Close", NoKey, 0, c8.stopCh = "open", 0,
                   IF c8.stopCh = "open" THEN "none" ELSE "panic")
    /\ UNCHANGED <<now, touched>>
    /\ A8_Frame

\* cleanupExpired: the select takes the stopCh case and returns.
A8_cleanerStop ==
    /\ last = Idle
    /\ c8.cleaner = "select"
    /\ c8.stopCh = "closed"
    /\ c8' = [c8 EXCEPT !.cleaner = "exited"]
    /\ UNCHANGED <<now, last, touched>>
    /\ A8_Frame

A8_Next ==
    \/ A8_Set
    \/ A8_Get
    \/ A8_cleanupExpired
    \/ A8_Close
    \/ A8_cleanerStop
    \/ Return
    \/ Tick

\* ----------------------------------- agent14, agent13, agent8: Close twice

CloseInit == A14_Init \/ A13_Init \/ A8_Init

CloseNext ==
    \/ (impl = "agent14" /\ A14_Next)
    \/ (impl = "agent13" /\ A13_Next)
    \/ (impl = "agent8" /\ A8_Next)

SpecClose == CloseInit /\ [][CloseNext]_vars

\* C16: calling Close more than once is safe: a second Close does nothing,
\* it does not panic and it returns.
C16_SecondCloseIsNoOp ==
    /\ impl = "agent14" => ~c14.panicked
    /\ impl = "agent13" => ~c13.panicked
    /\ impl = "agent8" => ~c8.panicked
    /\ (impl \in {"agent14", "agent13", "agent8"} /\ last.op = "Close") =>
          last.val # "panic"

\* ================================ agent8 and lrucache: the sweeper's ticker
\* src/unnamed/part_004 and src/unnamed/part_006, lines 215-377.  Here a
\* duration is a number of nanoseconds, the unit of time.Duration, and the
\* goroutine the constructor starts is followed from its first statement:
\* `cleaner` is "start" until it has made its ticker, and "panic" once
\* time.NewTicker has panicked on an interval that is not positive, which
\* ends the program.

\* l.ttl / 2 on time.Duration (int64): the quotient, truncated.
A8_tickerInterval(ttl) == ttl \div 2

\* NewLRU up to `go lru.cleanupExpired()`.
A8_NewLRUStarting(capacity, ttl) ==
    [A8_NewLRU(capacity, ttl) EXCEPT
        !.cleaner = IF ttl > 0 THEN "start" ELSE "none"]

\* cleanupExpired: ticker := time.NewTicker(l.ttl / 2).
A8_cleanerStart ==
    /\ last = Idle
    /\ c8.cleaner = "start"
    /\ IF A8_tickerInterval(c8.ttl) > 0
       THEN /\ c8' = [c8 EXCEPT !.cleaner = "select"]
            /\ UNCHANGED last
       ELSE /\ c8' = [c8 EXCEPT !.cleaner = "panic", !.panicked = TRUE]
            /\ last' = Did("cleanupExpired", NoKey, c8.ttl, FALSE, 0, "panic")
    /\ UNCHANGED <<now, touched>>
    /\ A8_Frame

A8_TickerInit ==
    /\ OnlyImpl("agent8")
    /\ now = 1
    /\ last = Idle
    /\ touched = <<>>
    /\ \E capacity \in Caps, ttl \in 0..(MaxTTL + 1) :
          c8 = A8_NewLRUStarting(capacity, ttl)

A8_TickerNext ==
    \/ A8_cleanerStart
    \/ A8_Set
    \/ A8_Get
    \/ A8_cleanupExpired
    \/ Return
    \/ Tick

\* lrucache.New(capacity, ttl), up to `go c.cleanupExpired()`.
LC_New(capacity, ttl) ==
    [capacity |-> capacity,
     ttl      |-> ttl,
     items    |-> {},
     lru      |-> <<>>,
     stopCh   |-> "open",
     cleaner  |-> IF ttl > 0 THEN "start" ELSE "none",
     panicked |-> FALSE]

\* c.ttl / 2
LC_tickerInterval(ttl) == ttl \div 2

LC_Frame ==
    UNCHANGED <<impl, c11, cJan, c12, cNeg, c10, c1, cPut, c13, c14, c8,
                cHT>>

\* cleanupExpired: ticker := time.NewTicker(c.ttl / 2).
LC_cleanerStart ==
    /\ last = Idle
    /\ cLC.cleaner = "start"
    /\ IF LC_tickerInterval(cLC.ttl) > 0
       THEN /\ cLC' = [cLC EXCEPT !.cleaner = "select"]
            /\ UNCHANGED last
       ELSE /\ cLC' = [cLC EXCEPT !.cleaner = "panic", !.panicked = TRUE]
            /\ last' = Did("cleanupExpired", NoKey, cLC.ttl, FALSE, 0, "panic")
    /\ UNCHANGED <<now, touched>>
    /\ LC_Frame

LC_Init ==
    /\ OnlyImpl("lrucache")
    /\ now = 1
    /\ last = Idle
    /\ touched = <<>>
    /\ \E capacity \in Caps, ttl \in 0..(MaxTTL + 1) :
          cLC = LC_New(capacity, ttl)

LC_Next ==
    \/ LC_cleanerStart
    \/ Tick

TickerInit == A8_TickerInit \/ LC_Init

TickerNext ==
    \/ impl = "agent8" /\ A8_TickerNext
    \/ impl = "lrucache" /\ LC_Next

SpecTicker == TickerInit /\ [][TickerNext]_vars

\* C37: for every ttl > 0 given to the constructor, the interval of the
\* sweeper's ticker, ttl / 2, is positive: once the sweeper has made its
\* ticker it is at its select, and time.NewTicker has not panicked.
C37_TickerIntervalPositive ==
    /\ impl = "agent8" =>
          /\ ~c8.panicked
          /\ (c8.ttl > 0 /\ c8.cleaner # "start") =>
                (A8_tickerInterval(c8.ttl) > 0 /\ c8.cleaner = "select")
    /\ impl = "lrucache" =>
          /\ ~cLC.panicked
          /\ (cLC.ttl > 0 /\ cLC.cleaner # "start") =>
                (LC_tickerInterval(cLC.ttl) > 0 /\ cLC.cleaner = "select")

\* ====================================================== agent11, type LRU
\* src/agent11/lru/cache.go, lines 264-361: type LRU with Get and Put.
\* A *list.Element is an identifier; `l` is the list of the elements linked
\* in, Front() first, `items` maps keys to elements and `ent` gives the
\* entry of every element still referenced.  Get looks its element up
\* under RLock and works on it under Lock: `gets` holds the Get calls
\* between the two, each with the element it found.

Put_New(capacity) ==
    [capacity |-> capacity,
     items    |-> <<>>,
     l        |-> <<>>,
     ent      |-> <<>>,
     gets     |-> {}]

\* time.Now().After(ent.expire)
Put_expired(e, t) == t > e.expire

\* The same state with the elements renamed: an element is a pointer, and
\* only which entry it leads to matters.  The element at place i of the
\* list is named i, the unlinked ones a Get still holds follow, and the
\* entries of elements nothing refers to are dropped.
Put_collect(c) ==
    LET n == Len(c.l)
        inl == {c.l[i] : i \in 1..n}
        det == {g.elem : g \in c.gets} \ inl
        name(x) == IF x \in inl
                   THEN CHOOSE i \in 1..n : c.l[i] = x
                   ELSE n + Cardinality({y \in det : y <= x})
    IN  [capacity |-> c.capacity,
         items    |-> [k \in DOMAIN c.items |-> name(c.items[k])],
         l        |-> [i \in 1..n |-> i],
         ent      |-> [i \in 1..(n + Cardinality(det)) |->
                         c.ent[CHOOSE x \in inl \cup det : name(x) = i]],
         gets     |-> {[key |-> g.key, elem |-> name(g.elem)] : g \in c.gets}]

\* delete(lru.items, key); lru.l.Remove(elem)
Put_remove(c, key, elem) ==
    [c EXCEPT !.items = [k \in DOMAIN c.items \ {key} |-> c.items[k]],
              !.l = SelectSeq(@, LAMBDA x : x # elem)]

\* Put: t0 is the clock reading taken before the lock.
Put_PutState(c, key, value, ttl, t0) ==
    LET expire == t0 + ttl
        new == Len(c.ent) + 1
    IN  IF key \in DOMAIN c.items
        THEN Put_collect(
               [c EXCEPT !.l = <<c.items[key]>> \o
                                 SelectSeq(@, LAMBDA x : x # c.items[key]),
                         !.ent[c.items[key]].value = value,
                         !.ent[c.items[key]].expire = expire])
        ELSE LET q == [c EXCEPT
                         !.l = <<new>> \o @,
                         !.items = [k \in DOMAIN c.items \cup {key} |->
                                      IF k = key THEN new ELSE c.items[k]],
                         !.ent = Append(@, [key |-> key, value |-> value,
                                            expire |-> expire])]
             IN  Put_collect(
                   IF Len(q.l) > q.capacity
                   THEN Put_remove(q, q.ent[Back(q.l)].key, Back(q.l))
                   ELSE q)

\* Get, second part, under Lock, for the call g that found g.elem.
Put_GetFound(c, g, t) == ~Put_expired(c.ent[g.elem], t)

Put_GetState(c, g, t) ==
    LET d == [c EXCEPT !.gets = @ \ {g}]
    IN  Put_collect(
          IF Put_expired(c.ent[g.elem], t)
          THEN Put_remove(d, g.key, g.elem)
          ELSE IF \E i \in 1..Len(c.l) : c.l[i] = g.elem
               THEN [d EXCEPT !.l = <<g.elem>> \o
                                       SelectSeq(@, LAMBDA x : x # g.elem)]
               ELSE d)

\* One pass of cleanup's loop body: from the back, remove expired entries
\* until the first one that has not expired.
Put_cleanupState(c, t) ==
    LET n == Len(c.l)
        keep == IF \E i \in 1..n : ~Put_expired(c.ent[c.l[i]], t)
                THEN CHOOSE i \in 1..n :
                        /\ ~Put_expired(c.ent[c.l[i]], t)
                        /\ \A j \in (i + 1)..n : Put_expired(c.ent[c.l[j]], t)
                ELSE 0
        gone == {c.ent[c.l[j]].key : j \in (keep + 1)..n}
    IN  Put_collect([c EXCEPT
                       !.l = SubSeq(@, 1, keep),
                       !.items = [k \in DOMAIN c.items \ gone |-> c.items[k]]])

Put_Frame ==
    UNCHANGED <<impl, c11, cJan, c12, cNeg, c10, c1, c13, c14, c8, cHT, cLC>>

Put_Init ==
    /\ OnlyImpl("put")
    /\ now = 1
    /\ last = Idle
    /\ touched = <<>>
    /\ \E capacity \in Caps : cPut = Put_New(capacity)

Put_Put ==
    \E key \in Keys, value \in Vals, ttl \in TTLs, t0 \in Earlier(now) :
        /\ last = Idle
        /\ cPut' = Put_PutState(cPut, key, value, ttl, t0)
        /\ last' = Did("Put", key, 0, TRUE, 0, "none")
        /\ UNCHANGED <<now, touched>>
        /\ Put_Frame

\* Get, first part, under RLock: not found, or the element is taken along.
Put_GetLookup ==
    \E key \in Keys :
        /\ last = Idle
        /\ IF key \in DOMAIN cPut.items
           THEN /\ Cardinality(cPut.gets) < MaxPending
                /\ cPut' = [cPut EXCEPT !.gets = @ \cup
                               {[key |-> key, elem |-> cPut.items[key]]}]
                /\ UNCHANGED last
           ELSE /\ last' = Did("Get", key, 0, FALSE, 0, "none")
                /\ UNCHANGED cPut
        /\ UNCHANGED <<now, touched>>
        /\ Put_Frame

Put_Get ==
    \E g \in cPut.gets :
        /\ last = Idle
        /\ cPut' = Put_GetState(cPut, g, now)
        /\ last' = Did("Get", g.key, 0, Put_GetFound(cPut, g, now),
                       Len(cPut.l) - Len(cPut'.l),
                       IF Put_GetFound(cPut, g, now)
                       THEN cPut.ent[g.elem].value ELSE "none")
        /\ UNCHANGED <<now, touched>>
        /\ Put_Frame

\* cleanup: the ticker fires and the loop body runs under Lock.
Put_cleanup ==
    /\ last = Idle
    /\ cPut' = Put_cleanupState(cPut, now)
    /\ last' = Did("cleanup", NoKey, 0, TRUE, Len(cPut.l) - Len(cPut'.l),
                   "none")
    /\ UNCHANGED <<now, touched>>
    /\ Put_Frame

Put_Next ==
    \/ Put_Put
    \/ Put_GetLookup
    \/ Put_Get
    \/ Put_cleanup
    \/ Return
    \/ Tick

SpecPut == Put_Init /\ [][Put_Next]_vars

\* C13: a cleanup pass does not stop at the first entry that has not
\* expired: right after a pass taken at the clock reading now, no entry
\* whose expire instant is before now is still in the list.
C13_CleanupRemovesEveryExpired ==
    (impl = "put" /\ last.op = "cleanup") =>
        \A i \in 1..Len(cPut.l) : ~(cPut.ent[cPut.l[i]].expire < now)

\* C28: Get is one atomic lookup, expiry check and promotion: when a Get
\* returns found, its key is resident at that moment (the map leads to an
\* element of the list), and that element is at the front of the list.
C28_GetIsAtomic ==
    (impl = "put" /\ last.op = "Get" /\ last.ok) =>
        /\ last.key \in DOMAIN cPut.items
        /\ cPut.l # <<>>
        /\ cPut.items[last.key] = cPut.l[1]
        /\ cPut.ent[cPut.l[1]].key = last.key

\* C30: whenever no goroutine holds the write lock, `items` and `l` hold
\* the same keys and len(items) = l.Len(): every key of the map leads to
\* an element of the list that carries this key, and every element of the
\* list is the one the map has for its key.  So the removal of an expired
\* entry by Get never takes the map entry of a newer element and leaves
\* that element in the list.
C30_MapAndListAgree ==
    impl = "put" =>
        /\ Len(cPut.l) = Cardinality(DOMAIN cPut.items)
        /\ {cPut.ent[cPut.l[i]].key : i \in 1..Len(cPut.l)} = DOMAIN cPut.items
        /\ \A i \in 1..Len(cPut.l) :
              /\ cPut.ent[cPut.l[i]].key \in DOMAIN cPut.items
              /\ cPut.items[cPut.ent[cPut.l[i]].key] = cPut.l[i]


\* ======================================================= head/tail cache
\* src/agent13/README.md, lines 58-371: type Cache[K, V] with its own
\* doubly linked list, here the sequence `list` from head to tail.
\* stopCh and doneCh are the fields c.stopCh and c.doneCh: "nil" or "ch",
\* the channel startCleaner made; stopClosed and doneClosed tell whether
\* that channel has been closed.  `cleaner` is the position of the
\* goroutine: "none" (not started), "start" (before its first defer),
\* "loop" (before the select), "select" (waiting in it), "tick" (it took
\* the ticker case and is about to call cleanupExpired), "exited".
\* gDone is the channel its deferred close was given, gStop the one its
\* select evaluated.  A caller of Close is "out", or at <-doneCh ("wait").

\* 10 * time.Millisecond, the unit of time of this model.
HT_MinInterval == 1

HT_clampDuration(value, min, max) ==
    LET v1 == IF min > 0 /\ value < min THEN min ELSE value
        v2 == IF max > 0 /\ v1 > max THEN max ELSE v1
    IN  IF v2 <= 0 THEN min ELSE v2

HT_New(capacity, defaultTTL, cleanupInterval) ==
    LET interval == IF defaultTTL > 0 /\ cleanupInterval <= 0
                    THEN HT_clampDuration(defaultTTL \div 2, HT_MinInterval,
                                          defaultTTL)
                    ELSE cleanupInterval
        started == interval > 0
    IN  [capacity        |-> capacity,
         entries         |-> {},
         list            |-> <<>>,
         defaultTTL      |-> defaultTTL,
         cleanupInterval |-> interval,
         stopCh          |-> IF started THEN "ch" ELSE "nil",
         doneCh          |-> IF started THEN "ch" ELSE "nil",
         stopClosed      |-> FALSE,
         doneClosed      |-> FALSE,
         cleaner         |-> IF started THEN "start" ELSE "none",
         gStop           |-> "nil",
         gDone           |-> "nil",
         closers         |-> [i \in Closers |-> "out"],
         returned        |-> FALSE,
         panicked        |-> FALSE]

\* !item.expiresAt.IsZero() && now.After(item.expiresAt)
HT_expired(item, t) == item.expiresAt # ZeroTime /\ t > item.expiresAt

HT_computeExpiry(ttl, t) == IF ttl <= 0 THEN ZeroTime ELSE t + ttl

\* removeEntry and delete(c.entries, key)
HT_removeEntry(c, k) ==
    [c EXCEPT !.entries = @ \ {k},
              !.list = ListRemove(@, k)]

HT_removeExpiredLocked(c, t) ==
    [c EXCEPT !.list = SelectSeq(@, LAMBDA e : ~HT_expired(e, t)),
              !.entries = {c.list[i].key : i \in
                             {j \in 1..Len(c.list) : ~HT_expired(c.list[j], t)}}]

\* evictLRU: the expired entries at the tail, or else the tail.
HT_evictLRU(c, t) ==
    LET n == Len(c.list)
        keep == IF \E i \in 1..n : ~HT_expired(c.list[i], t)
                THEN CHOOSE i \in 1..n :
                        /\ ~HT_expired(c.list[i], t)
                        /\ \A j \in (i + 1)..n : HT_expired(c.list[j], t)
                ELSE 0
    IN  IF n = 0 THEN c
        ELSE IF keep < n
             THEN [c EXCEPT !.list = SubSeq(@, 1, keep),
                            !.entries = {c.list[i].key : i \in 1..keep}]
             ELSE HT_removeEntry(c, Back(c.list).key)

\* SetWithTTL with the readings of c.now() of removeExpiredLocked (t1),
\* removeTailExpired (t2) and computeExpiry (t3).
HT_SetWithTTLState(c, key, value, ttl, t1, t2, t3) ==
    LET p == HT_removeExpiredLocked(c, t1)
        item == [key |-> key, value |-> value,
                 expiresAt |-> HT_computeExpiry(ttl, t3)]
    IN  IF key \in p.entries
        THEN [p EXCEPT !.list =
                 MoveToFront([i \in 1..Len(@) |->
                                IF @[i].key = key THEN item ELSE @[i]], key)]
        ELSE LET q == IF Cardinality(p.entries) >= p.capacity
                      THEN HT_evictLRU(p, t2) ELSE p
             IN  [q EXCEPT !.list = PushFront(@, item),
                           !.entries = @ \cup {key}]

HT_GetFound(c, key, t) ==
    /\ key \in c.entries
    /\ ~HT_expired(ElemOf(c.list, key), t)

HT_GetState(c, key, t) ==
    IF key \notin c.entries THEN c
    ELSE IF HT_GetFound(c, key, t)
         THEN [c EXCEPT !.list = MoveToFront(@, key)]
         ELSE HT_removeEntry(c, key)

HT_Frame ==
    UNCHANGED <<impl, c11, cJan, c12, cNeg, c10, c1, cPut, c13, c14, c8,
                cLC>>

HT_Init ==
    /\ OnlyImpl("headtail")
    /\ now = 1
    /\ last = Idle
    /\ touched = <<>>
    /\ \E capacity \in Caps, defaultTTL \in 0..MaxTTL, cleanupInterval \in 0..1 :
          cHT = HT_New(capacity, defaultTTL, cleanupInterval)

HT_SetWithTTL ==
    \E key \in Keys, value \in Vals, ttl \in TTLs :
        \E t2 \in Later(now) : \E t3 \in Later(t2) :
            /\ last = Idle
            /\ cHT' = HT_SetWithTTLState(cHT, key, value, ttl, now, t2, t3)
            /\ last' = Did("SetWithTTL", key, ttl, TRUE,
                           Cardinality(cHT.entries \ cHT'.entries), value)
            /\ touched' = Touch(touched, key, cHT'.entries)
            /\ UNCHANGED now
            /\ HT_Frame

HT_Get ==
    \E key \in Keys :
        /\ last = Idle
        /\ cHT' = HT_GetState(cHT, key, now)
        /\ last' = Did("Get", key, 0, HT_GetFound(cHT, key, now),
                       Cardinality(cHT.entries \ cHT'.entries),
                       IF HT_GetFound(cHT, key, now)
                       THEN ElemOf(cHT.list, key).value ELSE "none")
        /\ touched' = Touch(touched,
                            IF HT_GetFound(cHT, key, now) THEN key ELSE NoKey,
                            cHT'.entries)
        /\ UNCHANGED now
        /\ HT_Frame

\* The goroutine starts: defer close(c.doneCh) evaluates c.doneCh now.
HT_cleanerStart ==
    /\ cHT.cleaner = "start"
    /\ cHT' = [cHT EXCEPT !.cleaner = "loop", !.gDone = cHT.doneCh]
    /\ UNCHANGED <<now, last, touched>>
    /\ HT_Frame

\* The goroutine enters the select, which evaluates c.stopCh.
HT_cleanerSelect ==
    /\ cHT.cleaner = "loop"
    /\ cHT' = [cHT EXCEPT !.cleaner = "select", !.gStop = cHT.stopCh]
    /\ UNCHANGED <<now, last, touched>>
    /\ HT_Frame

\* select, case <-ticker.C
HT_cleanerTick ==
    /\ cHT.cleaner = "select"
    /\ cHT' = [cHT EXCEPT !.cleaner = "tick"]
    /\ UNCHANGED <<now, last, touched>>
    /\ HT_Frame

\* cleanupExpired, under the mutex, and back to the loop.
HT_cleanupExpired ==
    /\ cHT.cleaner = "tick"
    /\ cHT' = [HT_removeExpiredLocked(cHT, now) EXCEPT !.cleaner = "loop"]
    /\ touched' = Touch(touched, NoKey, cHT'.entries)
    /\ UNCHANGED <<now, last>>
    /\ HT_Frame

\* select, case <-c.stopCh, on the channel the select evaluated (a nil
\* channel is never ready): return, and the deferred close of gDone,
\* which panics on a nil channel.
HT_cleanerStop ==
    /\ cHT.cleaner = "select"
    /\ cHT.gStop = "ch"
    /\ cHT.stopClosed
    /\ cHT' = [cHT EXCEPT !.cleaner = "exited",
                          !.doneClosed = @ \/ cHT.gDone = "ch",
                          !.panicked = @ \/ cHT.gDone = "nil"]
    /\ UNCHANGED <<now, last, touched>>
    /\ HT_Frame

\* Close, under the mutex: return if c.stopCh is nil, else set both
\* fields to nil, close the stop channel and go on to <-doneCh.
HT_Close(i) ==
    /\ last = Idle
    /\ cHT.closers[i] = "out"
    /\ cHT' = IF cHT.stopCh = "nil"
              THEN [cHT EXCEPT !.returned = TRUE]
              ELSE [cHT EXCEPT !.stopCh = "nil", !.doneCh = "nil",
                               !.stopClosed = TRUE,
                               !.closers[i] = "wait"]
    /\ UNCHANGED <<now, last, touched>>
    /\ HT_Frame

\* Close: <-doneCh returns.
HT_CloseDone(i) ==
    /\ cHT.closers[i] = "wait"
    /\ cHT.doneClosed
    /\ cHT' = [cHT EXCEPT !.closers[i] = "out", !.returned = TRUE]
    /\ UNCHANGED <<now, last, touched>>
    /\ HT_Frame

HT_LifeNext ==
    \/ HT_SetWithTTL
    \/ HT_Get
    \/ HT_cleanerStart
    \/ HT_cleanerSelect
    \/ HT_cleanerTick
    \/ HT_cleanupExpired
    \/ HT_cleanerStop
    \/ \E i \in Closers : HT_Close(i)
    \/ \E i \in Closers : HT_CloseDone(i)
    \/ Return
    \/ Tick

\* The goroutines are scheduled and get the mutex they wait for; the
\* ticker goes on firing, and the select takes the stop case when the
\* ticker has nothing to deliver.
SpecHTLife ==
    /\ HT_Init
    /\ [][HT_LifeNext]_vars
    /\ WF_vars(HT_cleanerStart)
    /\ WF_vars(HT_cleanerSelect)
    /\ WF_vars(HT_cleanerTick)
    /\ WF_vars(HT_cleanupExpired)
    /\ SF_vars(HT_cleanerStop)
    /\ \A i \in Closers : WF_vars(HT_CloseDone(i))

\* C17: every call of Close returns, whatever the interleaving with the
\* start of the sweeper, its ticks and a cleanupExpired in progress: no
\* call waits for ever for doneCh, and nothing panics.
C17_CloseAlwaysReturns ==
    /\ [](impl = "headtail" => ~cHT.panicked)
    /\ \A i \in Closers :
          (impl = "headtail" /\ cHT.closers[i] = "wait")
              ~> (cHT.closers[i] = "out")

\* C18: once a call of Close has returned, the background goroutine does
\* not execute cleanupExpired again.
C18_NoSweepAfterClose ==
    [][(impl = "headtail" /\ cHT.returned) =>
          ~(cHT.cleaner = "tick" /\ cHT'.cleaner = "loop")]_vars

\* ================================= head/tail cache: the prev and next links
\* The cache of src/agent13/README.md with the list as the code keeps it:
\* c.head, c.tail and the prev and next fields of the entries.  An entry is
\* named by its key (the map holds at most one entry per key) and NoKey is
\* nil.  The fields of an entry that has left the map and the list are the
\* fields of an unreachable object; they read as those of a fresh entry.
HL_nil == NoKey

HL_New(capacity, defaultTTL, cleanupInterval) ==
    [capacity        |-> capacity,
     defaultTTL      |-> defaultTTL,
     cleanupInterval |->
         HT_New(capacity, defaultTTL, cleanupInterval).cleanupInterval,
     entries         |-> {},
     head            |-> HL_nil,
     tail            |-> HL_nil,
     prev            |-> [k \in Keys |-> HL_nil],
     next            |-> [k \in Keys |-> HL_nil],
     value           |-> [k \in Keys |-> "none"],
     expiresAt       |-> [k \in Keys |-> ZeroTime]]

HL_insertAtFront(c, item) ==
    LET s1 == [c EXCEPT !.prev[item] = HL_nil, !.next[item] = c.head]
        s2 == IF s1.head # HL_nil
              THEN [s1 EXCEPT !.prev[s1.head] = item]
              ELSE [s1 EXCEPT !.tail = item]
    IN  [s2 EXCEPT !.head = item]

\* A removeEntry that leaves c.tail alone.
HL_removeEntry_KeepsTail(c, item) ==
    LET s1 == IF c.prev[item] # HL_nil
              THEN [c EXCEPT !.next[c.prev[item]] = c.next[item]]
              ELSE [c EXCEPT !.head = c.next[item]]
        s2 == IF s1.next[item] # HL_nil
              THEN [s1 EXCEPT !.prev[s1.next[item]] = s1.prev[item]]
              ELSE s1
    IN  [s2 EXCEPT !.prev[item] = HL_nil, !.next[item] = HL_nil]

HL_removeEntry(c, item) ==
    LET s1 == IF c.prev[item] # HL_nil
              THEN [c EXCEPT !.next[c.prev[item]] = c.next[item]]
              ELSE [c EXCEPT !.head = c.next[item]]
        s2 == IF s1.next[item] # HL_nil
              THEN [s1 EXCEPT !.prev[s1.next[item]] = s1.prev[item]]
              ELSE [s1 EXCEPT !.tail = s1.prev[item]]
    IN  [s2 EXCEPT !.prev[item] = HL_nil, !.next[item] = HL_nil]

HL_moveToFront(c, item) ==
    IF c.head = item THEN c
    ELSE HL_insertAtFront(HL_removeEntry(c, item), item)

\* delete(c.entries, key)
HL_delete(c, key) ==
    [c EXCEPT !.entries = @ \ {key},
              !.value[key] = "none",
              !.expiresAt[key] = ZeroTime]

\* !item.expiresAt.IsZero() && now.After(item.expiresAt)
HL_expired(c, item, t) ==
    c.expiresAt[item] # ZeroTime /\ t > c.expiresAt[item]

\* The orders in which `for key, item := range c.entries` can meet the
\* entries it removes; the visit of any other entry changes nothing.
HL_Orders(c, t) ==
    LET stale == {k \in c.entries : HL_expired(c, k, t)}
    IN  {o \in [1..Cardinality(stale) -> stale] :
            \A i, j \in 1..Cardinality(stale) : o[i] = o[j] => i = j}

\* The loop of removeExpiredLocked from the i-th key of the visiting order.
RECURSIVE HL_rangeEntries(_, _, _, _)
HL_rangeEntries(c, t, order, i) ==
    IF i > Len(order) THEN c
    ELSE LET key == order[i]
         IN  IF key \in c.entries /\ HL_expired(c, key, t)
             THEN HL_rangeEntries(HL_delete(HL_removeEntry(c, key), key),
                                  t, order, i + 1)
             ELSE HL_rangeEntries(c, t, order, i + 1)

HL_removeExpiredLocked(c, t, order) ==
    IF Cardinality(c.entries) = 0 THEN c
    ELSE HL_rangeEntries(c, t, order, 1)

\* The loop of removeTailExpired with its cursor.
RECURSIVE HL_tailLoop(_, _, _, _)
HL_tailLoop(c, cursor, t, evicted) ==
    IF cursor = HL_nil \/ ~HL_expired(c, cursor, t)
    THEN [cache |-> c, evicted |-> evicted]
    ELSE LET prev == c.prev[cursor]
         IN  HL_tailLoop(HL_delete(HL_removeEntry(c, cursor), cursor),
                         prev, t, TRUE)

HL_removeTailExpired(c, t) == HL_tailLoop(c, c.tail, t, FALSE)

HL_evictLRU(c, t) ==
    LET r == HL_removeTailExpired(c, t)
    IN  IF r.evicted THEN r.cache
        ELSE IF c.tail = HL_nil THEN c
        ELSE HL_delete(HL_removeEntry(c, c.tail), c.tail)

\* SetWithTTL with the readings of c.now() of removeExpiredLocked (t1),
\* removeTailExpired (t2) and computeExpiry (t3).
HL_SetWithTTLState(c, key, value, ttl, order, t1, t2, t3) ==
    LET p == HL_removeExpiredLocked(c, t1, order)
    IN  IF key \in p.entries
        THEN HL_moveToFront(
                 [p EXCEPT !.value[key] = value,
                           !.expiresAt[key] = HT_computeExpiry(ttl, t3)],
                 key)
        ELSE LET q == IF Cardinality(p.entries) >= p.capacity
                      THEN HL_evictLRU(p, t2) ELSE p
                 item == [q EXCEPT !.value[key] = value,
                                   !.expiresAt[key] =
                                       HT_computeExpiry(ttl, t3)]
             IN  [HL_insertAtFront(item, key) EXCEPT !.entries = @ \cup {key}]

HL_GetFound(c, key, t) ==
    /\ key \in c.entries
    /\ (c.expiresAt[key] = ZeroTime \/ ~(t > c.expiresAt[key]))

HL_GetState(c, key, t) ==
    IF key \notin c.entries THEN c
    ELSE IF HL_GetFound(c, key, t) THEN HL_moveToFront(c, key)
    ELSE HL_delete(HL_removeEntry(c, key), key)

HL_DeleteState(c, key) ==
    IF key \in c.entries THEN HL_delete(HL_removeEntry(c, key), key) ELSE c

HL_Init ==
    /\ impl = "links"
    /\ now = 1
    /\ last = Idle
    /\ touched = <<>>
    /\ c11 = Absent /\ cJan = Absent /\ c12 = Absent /\ cNeg = Absent
    /\ c10 = Absent /\ c1 = Absent /\ cPut = Absent /\ c13 = Absent
    /\ c14 = Absent /\ c8 = Absent /\ cLC = Absent
    /\ \E capacity \in 1..MaxLinks, defaultTTL \in 0..MaxTTL,
          cleanupInterval \in 0..1 :
          cHT = HL_New(capacity, defaultTTL, cleanupInterval)

HL_SetWithTTL ==
    \E key \in Keys, value \in Vals, ttl \in TTLs, order \in HL_Orders(cHT, now) :
        \E t2 \in Later(now) : \E t3 \in Later(t2) :
            /\ last = Idle
            /\ cHT' = HL_SetWithTTLState(cHT, key, value, ttl, order,
                                         now, t2, t3)
            /\ last' = Did("SetWithTTL", key, ttl, TRUE,
                           Cardinality(cHT.entries \ cHT'.entries), value)
            /\ touched' = Touch(touched, key, cHT'.entries)
            /\ UNCHANGED now
            /\ HT_Frame

HL_Set ==
    \E key \in Keys, value \in Vals, order \in HL_Orders(cHT, now) :
        \E t2 \in Later(now) : \E t3 \in Later(t2) :
            /\ last = Idle
            /\ cHT' = HL_SetWithTTLState(cHT, key, value, cHT.defaultTTL,
                                         order, now, t2, t3)
            /\ last' = Did("Set", key, cHT.defaultTTL, TRUE,
                           Cardinality(cHT.entries \ cHT'.entries), value)
            /\ touched' = Touch(touched, key, cHT'.entries)
            /\ UNCHANGED now
            /\ HT_Frame

HL_Get ==
    \E key \in Keys :
        /\ last = Idle
        /\ cHT' = HL_GetState(cHT, key, now)
        /\ last' = Did("Get", key, 0, HL_GetFound(cHT, key, now),
                       Cardinality(cHT.entries \ cHT'.entries),
                       IF HL_GetFound(cHT, key, now)
                       THEN cHT.value[key] ELSE "none")
        /\ touched' = Touch(touched,
                            IF HL_GetFound(cHT, key, now) THEN key ELSE NoKey,
                            cHT'.entries)
        /\ UNCHANGED now
        /\ HT_Frame

HL_Delete ==
    \E key \in Keys :
        /\ last = Idle
        /\ cHT' = HL_DeleteState(cHT, key)
        /\ last' = Did("Delete", key, 0, key \in cHT.entries,
                       Cardinality(cHT.entries \ cHT'.entries), "none")
        /\ touched' = Touch(touched, NoKey, cHT'.entries)
        /\ UNCHANGED now
        /\ HT_Frame

HL_Len ==
    \E order \in HL_Orders(cHT, now) :
        /\ last = Idle
        /\ cHT' = HL_removeExpiredLocked(cHT, now, order)
        /\ last' = Did("Len", NoKey, 0, TRUE, Cardinality(cHT'.entries),
                       "none")
        /\ touched' = Touch(touched, NoKey, cHT'.entries)
        /\ UNCHANGED now
        /\ HT_Frame

\* A tick of the sweeper's ticker: cleanupExpired under the lock.
HL_cleanupExpired ==
    \E order \in HL_Orders(cHT, now) :
        /\ last = Idle
        /\ cHT.cleanupInterval > 0
        /\ cHT' = HL_removeExpiredLocked(cHT, now, order)
        /\ cHT' # cHT
        /\ touched' = Touch(touched, NoKey, cHT'.entries)
        /\ UNCHANGED <<now, last>>
        /\ HT_Frame

HL_Next ==
    \/ HL_SetWithTTL
    \/ HL_Set
    \/ HL_Get
    \/ HL_Delete
    \/ HL_Len
    \/ HL_cleanupExpired
    \/ Return
    \/ Tick

SpecHTLinks == HL_Init /\ [][HL_Next]_vars

\* The keys met by following next from x, at most n of them.
RECURSIVE HL_follow(_, _, _)
HL_follow(c, x, n) ==
    IF x = HL_nil \/ n = 0 THEN <<>>
    ELSE <<x>> \o HL_follow(c, c.next[x], n - 1)

\* The walk from c.head; one step more than there are keys shows a cycle.
HL_walk(c) == HL_follow(c, c.head, Cardinality(Keys) + 1)

HL_wellFormed(c) ==
    LET w == HL_walk(c)
    IN  /\ (c.head = HL_nil) <=> (c.tail = HL_nil)
        /\ (c.tail = HL_nil) <=> (c.entries = {})
        /\ c.head # HL_nil => c.prev[c.head] = HL_nil
        /\ c.tail # HL_nil => c.next[c.tail] = HL_nil
        /\ Len(w) = Cardinality(c.entries)
        /\ {w[i] : i \in 1..Len(w)} = c.entries
        /\ \A i, j \in 1..Len(w) : w[i] = w[j] => i = j
        /\ w # <<>> => w[Len(w)] = c.tail
        /\ \A x \in c.entries :
              c.next[x] # HL_nil => c.prev[c.next[x]] = x

\* The walk of c with item taken out of it.
HL_others(c, item) == SelectSeq(HL_walk(c), LAMBDA x : x # item)

\* C38: after every completed operation of the head/tail cache, head is nil
\* exactly when tail is nil and exactly when the map is empty, head.prev and
\* tail.next are nil, the walk along next from head meets every entry of the
\* map exactly once and ends at tail, and x.next.prev is x for each link;
\* moveToFront of any resident entry keeps the list well formed, puts the
\* entry at the head and leaves the other entries, their order and every
\* value and expiry as they were; and a Get that finds its key, or a Set
\* or SetWithTTL of a resident key that removes nothing, leaves the walk as
\* the key followed by the other entries in their earlier order.
C38_LinksWellFormed ==
    /\ [](impl = "links" =>
            /\ HL_wellFormed(cHT)
            /\ \A item \in cHT.entries :
                  LET m == HL_moveToFront(cHT, item)
                  IN  /\ HL_wellFormed(m)
                      /\ HL_walk(m) = <<item>> \o HL_others(cHT, item)
                      /\ m = [cHT EXCEPT !.head = m.head, !.tail = m.tail,
                                         !.prev = m.prev, !.next = m.next])
    /\ [][(/\ impl = "links"
           /\ last = Idle
           /\ last'.op \in {"Get", "Set", "SetWithTTL"}
           /\ last'.ok
           /\ last'.n = 0
           /\ last'.key \in cHT.entries)
          => HL_walk(cHT') = <<last'.key>> \o HL_others(cHT, last'.key)]_vars

\* A Get has moved an entry over an entry that was set after it, in a list
\* of three.
C38_Witness ==
    /\ impl = "links"
    /\ last.op = "Get"
    /\ last.ok
    /\ Cardinality(cHT.entries) = 3
    /\ cHT.head = last.key
    /\ cHT.expiresAt[cHT.head] # ZeroTime
    /\ cHT.expiresAt[cHT.next[cHT.head]] > cHT.expiresAt[cHT.head]
    /\ touched = HL_walk(cHT)

====
